---- MODULE Spec2Model ----
(***************************************************************************)
(* IKEv2 session engine (egorse/ike): the session run loop, the message-ID *)
(* discipline, the exchange state machine and the IKE SA key schedule.     *)
(*                                                                         *)
(* Two sessions are modelled, an initiator "I" and a responder "R".  Each  *)
(* owns three queues (incoming, outgoing, events) and is driven by Run.    *)
(* PostMessage is called by the dispatcher with whatever the network       *)
(* delivers: the peer session's datagrams (Deliver) when both endpoints    *)
(* are modelled, any datagram at all (PostForged) when the session faces   *)
(* an arbitrary peer.                                                      *)
(***************************************************************************)
EXTENDS Integers, Sequences, FiniteSets, TLC

\* ---------------------------------------------------------------- bounds
MaxMsgId  == 2      \* message ids explored: 0..MaxMsgId (uint32 in the code, no wrap below 2^32)
MaxIncoming == 1    \* capacity of incoming in the model
MaxQueue  == 2      \* capacity of outgoing in the model
MaxEvents == 2      \* capacity of the event queue in the model
MaxWire   == 1      \* datagrams in flight per direction
MaxCalls  == 2      \* callback invocations counted up to this number
MaxForged == 3      \* datagrams an arbitrary peer sends
MaxPriv   == 3      \* DH private values: 1..MaxPriv
MaxPayloads == 2    \* payloads in the chain of a datagram given to the codec
MaxKeymat == 7      \* the short lengths asked of prfplus: 0..MaxKeymat
DhP       == 23     \* modulus of the MODP group explored
DhG       == 5      \* its generator
prfLen    == 2      \* cipherSuite.prfLen of the suite explored, in bytes
keyLen    == 1      \* cipherSuite.keyLen
macKeyLen == 1      \* cipherSuite.macKeyLen
macLen    == 1      \* cipherSuite.macLen: the octets of the MAC on a message
ivLen     == 2      \* cipherSuite.ivLen: the block size of the CBC cipher

Sessions == {"I", "R"}
Peer(s)  == IF s = "I" THEN "R" ELSE "I"
CfgIds   == {1, 2}

VARIABLES
    sess,   \* sess[s]: the fields of Session s
    wire,   \* wire[s]: datagrams written by s's write_fn, not yet delivered
    live,   \* the sessions that exist: one endpoint facing the network, or both
    forged, \* number of datagrams an arbitrary peer has sent so far
    tkm,    \* tkm[s]: the Tkm of session s with the session's IKE SPIs
    srv,    \* the responder's handling of the last IKE_SA_INIT request it received
    calc,   \* the codec or key-schedule function applied last, its input and result
    last    \* what the last step did (observation of the step, not program state)

vars == <<sess, wire, live, forged, tkm, srv, calc, last>>

\* ------------------------------------------------------------- messages
\* A message as the session sees it:
\*   exch   IkeHeader.ExchangeType
\*   sk     IkeHeader.NextPayload = PayloadTypeSK
\*   resp   IkeHeader.Flags.IsResponse()
\*   id     IkeHeader.MsgId
\*   spiOk  IkeHeader.SpiI equals the session's IkeSpiI
\*   macOk  the SK payload passes VerifyDecrypt under the session's keys
\*   decOk  the inner payload chain of the SK payload decodes
\*   cfg    the configuration (proposals, secret) the sender used
\*   del    an INFORMATIONAL carrying a Delete payload
Message(exch, sk, resp, id, cfg, del) ==
    [exch |-> exch, sk |-> sk, resp |-> resp, id |-> id,
     spiOk |-> TRUE, macOk |-> TRUE, decOk |-> TRUE, cfg |-> cfg, del |-> del]

ExchangeTypes == {"IKE_SA_INIT", "IKE_AUTH", "CREATE_CHILD_SA", "INFORMATIONAL"}

\* the datagrams the network may hand to the dispatcher: every exchange type,
\* direction and id in its regular form (IKE_SA_INIT in clear, the others in an SK
\* payload), IKE_SA_INIT and IKE_AUTH also in the other form; an INFORMATIONAL
\* request may carry a Delete, fail to verify, or verify and hold a payload chain
\* that does not decode; a request of the handshake may
\* come from either configuration; one datagram carries a foreign SPI
ForgedMsgs ==
    { m \in [exch : ExchangeTypes, sk : BOOLEAN, resp : BOOLEAN, id : 0..MaxMsgId,
             spiOk : BOOLEAN, macOk : BOOLEAN, decOk : BOOLEAN, cfg : CfgIds,
             del : BOOLEAN] :
        /\ (m.sk # (m.exch # "IKE_SA_INIT") => m.exch \in {"IKE_SA_INIT", "IKE_AUTH"})
        /\ (~m.spiOk => m = [Message("IKE_SA_INIT", FALSE, FALSE, 0, 1, FALSE) EXCEPT !.spiOk = FALSE])
        /\ (~m.macOk => m.exch = "INFORMATIONAL" /\ ~m.resp /\ ~m.del /\ m.decOk)
        /\ (~m.decOk => m.exch = "INFORMATIONAL" /\ ~m.resp /\ ~m.del)
        /\ (m.del => m.exch = "INFORMATIONAL" /\ ~m.resp)
        /\ (m.cfg # 1 => m.exch \in {"IKE_SA_INIT", "IKE_AUTH"} /\ ~m.resp
                           /\ m.sk = (m.exch = "IKE_AUTH")) }

\* --------------------------------------------------------------- events
StateEvent(ev, id, req, cfg, err) ==
    [ev |-> ev, id |-> id, req |-> req, cfg |-> cfg, err |-> err]

Evt(ev) == StateEvent(ev, 0, FALSE, 1, "none")

FailEvents == {"INIT_FAIL", "AUTH_FAIL"}

\* ------------------------------------------------------------- sessions
\* addSa and removeSa count the calls of the two callbacks; closeCalled records
\* that Close has been called on the session
\* blocked records that Run waits in a send on its own full outgoing queue;
\* posting holds the call of PostMessage the dispatcher is in, if any: the
\* message and the statement reached
NewInitiator(cfg, ts) ==
    [isInitiator |-> TRUE, State |-> "Idle", isClosing |-> FALSE,
     msgIdReq |-> 0, msgIdResp |-> 0,
     incoming |-> <<>>, outgoing |-> <<>>, events |-> <<Evt("SMI_START")>>,
     done |-> FALSE, closed |-> FALSE, running |-> TRUE, panicked |-> FALSE,
     haveKeys |-> FALSE, cfg |-> cfg, ts |-> ts,
     addSa |-> 0, removeSa |-> 0, closeCalled |-> FALSE,
     blocked |-> FALSE, posting |-> <<>>]

NewResponder(cfg, ts) ==
    [NewInitiator(cfg, ts) EXCEPT !.isInitiator = FALSE, !.events = <<>>]

\* PostEvent: events <- e.  A send on the closed channel panics.
PostEvent(o, e) ==
    IF o.closed THEN [o EXCEPT !.panicked = TRUE]
    ELSE [o EXCEPT !.events = Append(@, e)]

\* sendMsg with err = nil: o.outgoing <- buf.  A send on the closed channel panics.
sendMsg(o, buf) ==
    IF o.closed THEN [o EXCEPT !.panicked = TRUE]
    ELSE [o EXCEPT !.outgoing = Append(@, buf)]

\* variant: the response counter is advanced twice
msgIdInc_Twice(o, isResponse) ==
    IF isResponse
    THEN [msgId |-> o.msgIdResp, o |-> [o EXCEPT !.msgIdResp = @ + 2]]
    ELSE [msgId |-> o.msgIdReq, o |-> o]

msgIdInc(o, isResponse) ==
    IF isResponse
    THEN [msgId |-> o.msgIdResp, o |-> [o EXCEPT !.msgIdResp = @ + 1]]
    ELSE [msgId |-> o.msgIdReq, o |-> o]

\* ------------------------------------------------ receiving (dispatcher)
\* variant: the request counter is advanced before the id is compared
isMessageValid_IncFirst(o, m) ==
    IF ~m.spiOk THEN [err |-> "spi", o |-> o]
    ELSE IF ~m.sk /\ o.State \notin {"Idle", "Start"} THEN [err |-> "state", o |-> o]
    ELSE IF m.resp
         THEN IF m.id # o.msgIdReq
              THEN [err |-> "seq", o |-> [o EXCEPT !.msgIdReq = @ + 1]]
              ELSE [err |-> "nil", o |-> [o EXCEPT !.msgIdReq = @ + 1]]
         ELSE IF m.id # o.msgIdResp THEN [err |-> "seq", o |-> o]
              ELSE [err |-> "nil", o |-> o]

\* variant: the check of unencrypted messages against the state is missing
isMessageValid_NoStateCheck(o, m) ==
    IF ~m.spiOk THEN [err |-> "spi", o |-> o]
    ELSE IF m.resp
         THEN IF m.id # o.msgIdReq THEN [err |-> "seq", o |-> o]
              ELSE [err |-> "nil", o |-> [o EXCEPT !.msgIdReq = @ + 1]]
         ELSE IF m.id # o.msgIdResp THEN [err |-> "seq", o |-> o]
              ELSE [err |-> "nil", o |-> o]

\* isMessageValid: [err, o]; err = "nil" when the message is valid.
isMessageValid(o, m) ==
    IF ~m.spiOk THEN [err |-> "spi", o |-> o]
    ELSE IF ~m.sk /\ o.State \notin {"Idle", "Start"} THEN [err |-> "state", o |-> o]
    ELSE IF m.resp
         THEN IF m.id # o.msgIdReq THEN [err |-> "seq", o |-> o]
              ELSE [err |-> "nil", o |-> [o EXCEPT !.msgIdReq = @ + 1]]
         ELSE IF m.id # o.msgIdResp THEN [err |-> "seq", o |-> o]
              ELSE [err |-> "nil", o |-> o]

\* PostMessage: [verdict, o]
PostMessage(o, m) ==
    LET v == isMessageValid(o, m) IN
    IF v.err # "nil" THEN [verdict |-> v.err, o |-> v.o]
    ELSE IF v.o.done THEN [verdict |-> "closing", o |-> v.o]
    ELSE [verdict |-> "accepted", o |-> [v.o EXCEPT !.incoming = Append(@, m)]]

\* handleEncryptedMessage: TRUE when VerifyDecrypt and DecodePayloads succeed
handleEncryptedMessage(o, m) ==
    IF m.sk THEN o.haveKeys /\ m.macOk /\ m.decOk ELSE TRUE

\* HandleInformationalForSession: a Delete payload raises MSG_INFORMATIONAL
HandleInformationalForSession(o, m) ==
    IF m.del THEN <<StateEvent("MSG_INFORMATIONAL", m.id, ~m.resp, m.cfg, "none")>>
    ELSE <<>>

\* handleMessage: the events to post (none or one)
handleMessage(o, m) ==
    CASE m.exch = "IKE_SA_INIT"     -> <<StateEvent("MSG_INIT", m.id, ~m.resp, m.cfg, "none")>>
      [] m.exch = "IKE_AUTH"        -> <<StateEvent("MSG_AUTH", m.id, ~m.resp, m.cfg, "none")>>
      [] m.exch = "CREATE_CHILD_SA" -> <<StateEvent("MSG_CHILD_SA", m.id, ~m.resp, m.cfg, "none")>>
      [] m.exch = "INFORMATIONAL"   -> HandleInformationalForSession(o, m)

\* ------------------------------------------------------------- builders
SendInit(o) ==
    LET r == msgIdInc(o, ~o.isInitiator) IN
    sendMsg(r.o, Message("IKE_SA_INIT", FALSE, ~o.isInitiator, r.msgId, o.cfg, FALSE))

\* SendAuth: [o, evt]; AUTH_FAIL when the selectors are missing
SendAuth(o) ==
    IF ~o.ts
    THEN [o |-> o, evt |-> StateEvent("AUTH_FAIL", 0, FALSE, 1, "NO_PROPOSAL_CHOSEN")]
    ELSE LET r == msgIdInc(o, ~o.isInitiator) IN
         [o |-> sendMsg(r.o, Message("IKE_AUTH", TRUE, ~o.isInitiator, r.msgId, o.cfg, FALSE)),
          evt |-> Evt("SUCCESS")]

Notify(o, ie) ==
    LET r == msgIdInc(o, FALSE) IN
    sendMsg(r.o, Message("INFORMATIONAL", o.haveKeys, FALSE, r.msgId, o.cfg, FALSE))

sendIkeSaDelete(o) ==
    LET r == msgIdInc(o, FALSE) IN
    sendMsg(r.o, Message("INFORMATIONAL", o.haveKeys, FALSE, r.msgId, o.cfg, TRUE))

SendEmptyInformational(o, isResponse) ==
    LET r == msgIdInc(o, isResponse) IN
    sendMsg(r.o, Message("INFORMATIONAL", o.haveKeys, isResponse, r.msgId, o.cfg, FALSE))

\* ---------------------------------------------------- session callbacks
\* variant: the isClosing guard is missing
Close_NoGuard(o) ==
    PostEvent(sendIkeSaDelete([o EXCEPT !.isClosing = TRUE]), Evt("DELETE_IKE_SA"))

Close(o) ==
    IF o.isClosing THEN o
    ELSE PostEvent(sendIkeSaDelete([o EXCEPT !.isClosing = TRUE]), Evt("DELETE_IKE_SA"))

\* variant: the queues are closed without looking at outgoing
Finished_NoDrain(o) == [o EXCEPT !.closed = TRUE, !.done = TRUE]

Finished(o) ==
    IF Len(o.outgoing) > 0 THEN PostEvent(o, Evt("FINISHED"))
    ELSE [o EXCEPT !.closed = TRUE, !.done = TRUE]

InstallSa(o) == [o EXCEPT !.addSa = @ + 1]

RemoveSa(o) == [o EXCEPT !.removeSa = @ + 1]

\* HandleIkeSaInit: [o, evt]; the message must come from the other role
\* (CheckInitRequest, CheckInitResponseForSession) and from a peer of our
\* configuration (HandleInitForSession)
HandleIkeSaInit(o, e) ==
    IF e.req = o.isInitiator \/ e.cfg # o.cfg
    THEN [o |-> o, evt |-> StateEvent("INIT_FAIL", e.id, e.req, 1, "NO_PROPOSAL_CHOSEN")]
    ELSE [o |-> [o EXCEPT !.haveKeys = TRUE], evt |-> Evt("SUCCESS")]

\* variant: the result of HandleAuthForSession is ignored
HandleIkeAuth_IgnoreError(o, e) ==
    [o |-> PostEvent(o, Evt("SUCCESS")), evt |-> Evt("SUCCESS")]

\* HandleAuthForSession: the error returned.  A message of our own role lacks
\* the payloads required of the other role (InvalidSyntax); an AUTH payload made
\* under another configuration does not verify.
HandleAuthForSession(o, e) ==
    IF e.req = o.isInitiator THEN "INVALID_SYNTAX"
    ELSE IF e.cfg # o.cfg THEN "AUTHENTICATION_FAILED"
    ELSE "nil"

AuthErrors == {"INVALID_SYNTAX", "AUTHENTICATION_FAILED"}

\* HandleIkeAuth: [o, evt]; the error of HandleAuthForSession is the Data of
\* AUTH_FAIL; on success SUCCESS is also posted
HandleIkeAuth(o, e) ==
    LET err == HandleAuthForSession(o, e) IN
    IF err # "nil"
    THEN [o |-> o, evt |-> StateEvent("AUTH_FAIL", e.id, e.req, 1, err)]
    ELSE [o |-> PostEvent(o, Evt("SUCCESS")), evt |-> Evt("SUCCESS")]

\* variant: the isClosing guard of HandleClose is missing
HandleClose_NoGuard(o) ==
    RemoveSa(SendEmptyInformational([o EXCEPT !.isClosing = TRUE], TRUE))

HandleClose(o) ==
    IF o.isClosing THEN o
    ELSE RemoveSa(SendEmptyInformational([o EXCEPT !.isClosing = TRUE], TRUE))

\* HandleCreateChildSa: always AUTH_FAIL carrying ERR_NO_ADDITIONAL_SAS
HandleCreateChildSa(o, e) ==
    [o |-> o, evt |-> StateEvent("AUTH_FAIL", e.id, e.req, 1, "NO_ADDITIONAL_SAS")]

\* CheckError: an IkeErrorCode is sent to the peer
CheckError(o, e) ==
    IF e.err # "none" THEN Notify(o, e.err) ELSE o

\* -------------------------------------------------------- state machine
\* entering Closing schedules the drain
Closing(o) == PostEvent([o EXCEPT !.State = "Closing"], Evt("FINISHED"))

\* a check handler that does not return SUCCESS raises its event instead
Raise(r) == PostEvent(r.o, r.evt)

InitiatorTransitions(o, e) ==
    IF e.ev = "SMI_START" /\ o.State = "Idle"
    THEN SendInit([o EXCEPT !.State = "InitWait"])
    ELSE IF e.ev = "MSG_INIT" /\ o.State = "InitWait"
    THEN LET h == HandleIkeSaInit(o, e) IN
         IF h.evt.ev # "SUCCESS" THEN Raise(h)
         ELSE LET a == SendAuth([h.o EXCEPT !.State = "AuthWait"]) IN
              IF a.evt.ev # "SUCCESS" THEN Raise(a) ELSE a.o
    ELSE IF e.ev = "MSG_AUTH" /\ o.State = "AuthWait"
    THEN LET h == HandleIkeAuth(o, e) IN
         IF h.evt.ev # "SUCCESS" THEN Raise(h)
         ELSE InstallSa([h.o EXCEPT !.State = "Mature"])
    ELSE o

ResponderTransitions(o, e) ==
    IF e.ev = "MSG_INIT" /\ o.State = "Idle"
    THEN LET h == HandleIkeSaInit(o, e) IN
         IF h.evt.ev # "SUCCESS" THEN Raise(h)
         ELSE SendInit([h.o EXCEPT !.State = "ResponderInit"])
    ELSE IF e.ev = "MSG_AUTH" /\ o.State = "ResponderInit"
    THEN LET h == HandleIkeAuth(o, e) IN
         IF h.evt.ev # "SUCCESS" THEN Raise(h)
         ELSE LET a == SendAuth(InstallSa([h.o EXCEPT !.State = "Mature"])) IN
              IF a.evt.ev # "SUCCESS" THEN Raise(a) ELSE a.o
    ELSE o

\* HandleEvent: the transition for (State, event); pairs without a row are ignored
HandleEvent(o, e) ==
    IF o.State = "Finished" THEN o
    ELSE IF e.ev \in FailEvents THEN Closing(RemoveSa(CheckError(o, e)))
    ELSE IF e.ev = "DELETE_IKE_SA" THEN Closing(RemoveSa(o))
    ELSE IF e.ev = "FINISHED"
    THEN IF o.State # "Closing" THEN o
         ELSE LET f == Finished(o) IN
              IF f.closed THEN [f EXCEPT !.State = "Finished"] ELSE f
    ELSE IF e.ev = "MSG_INFORMATIONAL" THEN Closing(HandleClose(o))
    ELSE IF e.ev = "MSG_CHILD_SA"
    THEN IF o.State = "Mature" THEN Raise(HandleCreateChildSa(o, e)) ELSE o
    ELSE IF o.isInitiator THEN InitiatorTransitions(o, e)
    ELSE ResponderTransitions(o, e)

\* -------------------------------------------------- IKE SA key schedule
\* A byte is a record: a literal byte [i |-> value] or the i-th byte of the prf
\* output for (key, data).  Two prf outputs are equal iff their inputs are.
Lit(b) == [k |-> <<>>, d |-> <<>>, i |-> b]

\* big.Int.Bytes: big-endian, no leading zero bytes
RECURSIVE Bytes(_)
Bytes(n) == IF n = 0 THEN <<>> ELSE Append(Bytes(n \div 256), Lit(n % 256))

\* big.Int.SetBytes
RECURSIVE SetBytes(_)
SetBytes(b) ==
    IF b = <<>> THEN 0
    ELSE SetBytes(SubSeq(b, 1, Len(b) - 1)) * 256 + b[Len(b)].i

\* the MODP group: public = g^priv mod p, shared = theirPublic^priv mod p
RECURSIVE ModExp(_, _, _)
ModExp(b, e, m) == IF e = 0 THEN 1 % m ELSE (b * ModExp(b, e - 1, m)) % m

dhPublic(priv) == ModExp(DhG, priv, DhP)

diffieHellman(theirPublic, priv) == ModExp(theirPublic, priv, DhP)

\* The data of a prf call, written flat: an octet with no data of its own
\* stands for itself; an octet of a prf output is written as OctOpen, the flat
\* data of that prf call, Close; and an octet that continues the prf output of
\* the octet before it is written as Cont.  Different data have different flat
\* forms.
OctOpen(x) == [k |-> x.k, d |-> <<>>, i |-> 0 - x.i]
OctClose == [k |-> <<>>, d |-> <<>>, i |-> 0 - 256]
OctCont(x) == [k |-> <<>>, d |-> <<>>, i |-> 0 - 256 - x.i]
RECURSIVE Flatten(_, _)
Flatten(data, j) ==
    IF j > Len(data) THEN <<>>
    ELSE (IF data[j].d = <<>> THEN <<data[j]>>
          ELSE IF j > 1 /\ data[j - 1].k = data[j].k /\ data[j - 1].d = data[j].d
          THEN <<OctCont(data[j])>>
          ELSE <<OctOpen(data[j])>> \o data[j].d \o <<OctClose>>)
         \o Flatten(data, j + 1)

\* suite.prf (macPrf): the HMAC of data under key, prfLen bytes
prf(key, data) ==
    LET d == Flatten(data, 1) IN [i \in 1..prfLen |-> [k |-> key, d |-> d, i |-> i]]

\* variant: the round counter starts at 0
prfplusRound_FromZero(key, data, bits, st) ==
    IF Len(st.ret) < bits
    THEN LET p == prf(key, st.prev \o data \o <<Lit((st.round - 1) % 256)>>) IN
         [ret |-> st.ret \o p, prev |-> p, round |-> st.round + 1]
    ELSE st

\* one turn of the loop of prfplus, its condition included: byte(round) keeps
\* the low eight bits of round
prfplusRound(key, data, bits, st) ==
    IF Len(st.ret) < bits
    THEN LET p == prf(key, st.prev \o data \o <<Lit(st.round % 256)>>) IN
         [ret |-> st.ret \o p, prev |-> p, round |-> st.round + 1]
    ELSE st

\* the loop of prfplus, unfolded four turns at a time
RECURSIVE prfplusLoop(_, _, _, _)
prfplusLoop(key, data, bits, st) ==
    IF Len(st.ret) < bits
    THEN prfplusLoop(key, data, bits,
             prfplusRound(key, data, bits, prfplusRound(key, data, bits,
             prfplusRound(key, data, bits, prfplusRound(key, data, bits, st)))))
    ELSE SubSeq(st.ret, 1, bits)

prfplus(key, data, bits) ==
    prfplusLoop(key, data, bits, [ret |-> <<>>, prev |-> <<>>, round |-> 1])

Nonces == {1, 255, 256}
Privs  == 1..MaxPriv
Spis   == {<<Lit(1), Lit(2)>>, <<Lit(2), Lit(1)>>}
NoSpi  == <<Lit(0), Lit(0)>>

\* a Tkm not yet constructed
NoTkm ==
    [phase |-> "none", isInitiator |-> FALSE, Ni |-> 0, Nr |-> 0,
     DhPrivate |-> 0, DhPublic |-> 0, DhShared |-> 0,
     IkeSpiI |-> NoSpi, IkeSpiR |-> NoSpi,
     SKEYSEED |-> <<>>, skD |-> <<>>, skAi |-> <<>>, skAr |-> <<>>,
     skEi |-> <<>>, skEr |-> <<>>, skPi |-> <<>>, skPr |-> <<>>]

\* NcCreate with no the random prime drawn
NcCreate(t, no) == IF t.isInitiator THEN [t EXCEPT !.Ni = no] ELSE [t EXCEPT !.Nr = no]

\* DhCreate with priv the random private value drawn
DhCreate(t, priv) == [t EXCEPT !.DhPrivate = priv, !.DhPublic = dhPublic(priv)]

DhGenerateKey(t, theirPublic) ==
    [t EXCEPT !.DhShared = diffieHellman(theirPublic, t.DhPrivate)]

\* NewInitiator: NewTkmInitiator and the session's own SPI
NewTkmInitiator(no, priv, spi) ==
    [DhCreate(NcCreate([NoTkm EXCEPT !.isInitiator = TRUE], no), priv)
       EXCEPT !.phase = "init", !.IkeSpiI = spi]

\* NewResponder: NewTkmResponder from the request, and the session's SPIs
NewTkmResponder(theirPublic, theirNonce, theirSpi, no, priv, spi) ==
    [DhGenerateKey(DhCreate(NcCreate([NoTkm EXCEPT !.Ni = theirNonce], no), priv), theirPublic)
       EXCEPT !.phase = "init", !.IkeSpiI = theirSpi, !.IkeSpiR = spi]

\* variant: the encryption keys are cut from KEYMAT before the integrity keys
IsaCreate_EncrFirst(t, spiI, spiR) ==
    LET SKEYSEED == prf(Bytes(t.Ni) \o Bytes(t.Nr), Bytes(t.DhShared))
        kmLen    == 3 * prfLen + 2 * keyLen + 2 * macKeyLen
        KEYMAT   == prfplus(SKEYSEED, Bytes(t.Ni) \o Bytes(t.Nr) \o spiI \o spiR, kmLen)
        o1 == prfLen
        o2 == o1 + keyLen
        o3 == o2 + keyLen
        o4 == o3 + macKeyLen
        o5 == o4 + macKeyLen
        o6 == o5 + prfLen
    IN [t EXCEPT !.SKEYSEED = SKEYSEED,
                 !.skD  = SubSeq(KEYMAT, 1, o1),
                 !.skEi = SubSeq(KEYMAT, o1 + 1, o1 + keyLen),
                 !.skEr = SubSeq(KEYMAT, o2 + 1, o2 + keyLen),
                 !.skAi = SubSeq(KEYMAT, o3 + 1, o3 + macKeyLen),
                 !.skAr = SubSeq(KEYMAT, o4 + 1, o4 + macKeyLen),
                 !.skPi = SubSeq(KEYMAT, o5 + 1, o5 + prfLen),
                 !.skPr = SubSeq(KEYMAT, o6 + 1, o6 + prfLen)]

\* IsaCreate: SKEYSEED = prf(Ni | Nr, g^ir), KEYMAT = prf+(SKEYSEED, Ni | Nr | SPIi | SPIr)
IsaCreate(t, spiI, spiR) ==
    LET SKEYSEED == prf(Bytes(t.Ni) \o Bytes(t.Nr), Bytes(t.DhShared))
        kmLen    == 3 * prfLen + 2 * keyLen + 2 * macKeyLen
        KEYMAT   == prfplus(SKEYSEED, Bytes(t.Ni) \o Bytes(t.Nr) \o spiI \o spiR, kmLen)
        o1 == prfLen
        o2 == o1 + macKeyLen
        o3 == o2 + macKeyLen
        o4 == o3 + keyLen
        o5 == o4 + keyLen
        o6 == o5 + prfLen
    IN [t EXCEPT !.SKEYSEED = SKEYSEED,
                 !.skD  = SubSeq(KEYMAT, 1, o1),
                 !.skAi = SubSeq(KEYMAT, o1 + 1, o1 + macKeyLen),
                 !.skAr = SubSeq(KEYMAT, o2 + 1, o2 + macKeyLen),
                 !.skEi = SubSeq(KEYMAT, o3 + 1, o3 + keyLen),
                 !.skEr = SubSeq(KEYMAT, o4 + 1, o4 + keyLen),
                 !.skPi = SubSeq(KEYMAT, o5 + 1, o5 + prfLen),
                 !.skPr = SubSeq(KEYMAT, o6 + 1, o6 + prfLen)]

\* InitFromSession as the peer decodes it: the nonce and the KE data cross the
\* wire as bytes (NoncePayload, KePayload)
InitFromSession(t) ==
    [nonce    |-> SetBytes(Bytes(IF t.isInitiator THEN t.Ni ELSE t.Nr)),
     dhPublic |-> SetBytes(Bytes(t.DhPublic)),
     spiI     |-> t.IkeSpiI,
     spiR     |-> t.IkeSpiR]

\* variant: the initiator does not take the responder's SPI from the response
HandleInitForSession_NoSpiR(t, init) ==
    LET t1 == IF t.isInitiator THEN [t EXCEPT !.Nr = init.nonce] ELSE t
        t2 == DhGenerateKey(t1, init.dhPublic)
    IN [IsaCreate(t2, t2.IkeSpiI, t2.IkeSpiR) EXCEPT !.phase = "keys"]

\* HandleInitForSession with no error
HandleInitForSession(t, init) ==
    LET t1 == IF t.isInitiator
              THEN [t EXCEPT !.Nr = init.nonce, !.IkeSpiR = init.spiR]
              ELSE t
        t2 == DhGenerateKey(t1, init.dhPublic)
    IN [IsaCreate(t2, t2.IkeSpiI, t2.IkeSpiR) EXCEPT !.phase = "keys"]

\* the notifications of an IKE_SA_INIT message that HandleInitForSession looks at
InitNotifications ==
    {"SIGNATURE_HASH_ALGORITHMS", "NAT_DETECTION_SOURCE_IP",
     "NAT_DETECTION_DESTINATION_IP"}
AuthMethods ==
    {"AUTH_SHARED_KEY_MESSAGE_INTEGRITY_CODE", "AUTH_DIGITAL_SIGNATURE",
     "AUTH_RSA_DIGITAL_SIGNATURE"}

\* the loop over init.ns: whether the peer sent SIGNATURE_HASH_ALGORITHMS
rfc7427Signatures(ns) ==
    \E j \in 1..Len(ns) : ns[j] = "SIGNATURE_HASH_ALGORITHMS"

checkSignatureAlgo(authMethod, isEnabled) ==
    IF ~isEnabled /\ authMethod = "AUTH_SHARED_KEY_MESSAGE_INTEGRITY_CODE"
    THEN "Peer is not using secure signatures"
    ELSE "nil"

\* HandleInitForSession of a session configured with authMethod, for a message
\* with the notifications ns: the error returned and the Tkm afterwards
HandleInitWithNotifications(t, authMethod, init, ns) ==
    LET err == checkSignatureAlgo(authMethod, rfc7427Signatures(ns)) IN
    [err |-> err, t |-> IF err = "nil" THEN HandleInitForSession(t, init) ELSE t]

\* ------------------------------------------- IKE_SA_INIT request checks
MODP_1024 == 2
MODP_2048 == 14
DhTransformIds == {MODP_1024, MODP_2048}
Remotes == {"10.0.0.1:500", "10.0.0.2:500"}

\* an error value: its cause and the message it was wrapped with
Err(cause, msg) == [cause |-> cause, msg |-> msg]
NoErr == Err("nil", "")
Cause(err) == err.cause

\* init.cookie = nil
NoCookie == <<>>

\* the cookie of a request: a digest of the nonce, the initiator SPI, the remote
\* address and the responder's secret
getCookie(nonce, spiI, remote) ==
    <<[hash |-> <<Bytes(nonce), spiI, remote, "secret">>]>>

\* packets.WriteB16(buf, 0, v) on a buffer of two octets
WriteB16(v) == <<Lit(v \div 256), Lit(v % 256)>>

Config(throttle, dh) == [ThrottleInitRequests |-> throttle, dh |-> dh]

initParams(isInitiator, spiI, cookie, dhTransformId, nonce, proposalsOk) ==
    [isInitiator |-> isInitiator, spiI |-> spiI, cookie |-> cookie,
     dhTransformId |-> dhTransformId, nonce |-> nonce, proposalsOk |-> proposalsOk]

\* variant: the DH transform is checked before the cookie
CheckInitRequest_DhFirst(cfg, init, remote) ==
    IF ~init.isInitiator THEN Err("INVALID_SYNTAX", "")
    ELSE IF cfg.dh # init.dhTransformId
    THEN Err("INVALID_KE_PAYLOAD", "Using different DH transform")
    ELSE IF init.cookie # NoCookie /\ init.cookie # getCookie(init.nonce, init.spiI, remote)
    THEN Err("MissingCookieError", "invalid cookie")
    ELSE IF init.cookie = NoCookie /\ cfg.ThrottleInitRequests
    THEN Err("MissingCookieError", "requesting cookie")
    ELSE IF ~init.proposalsOk THEN Err("acceptable proposals are missing", "")
    ELSE NoErr

CheckInitRequest(cfg, init, remote) ==
    IF ~init.isInitiator THEN Err("INVALID_SYNTAX", "")
    ELSE IF init.cookie # NoCookie /\ init.cookie # getCookie(init.nonce, init.spiI, remote)
    THEN Err("MissingCookieError", "invalid cookie")
    ELSE IF init.cookie = NoCookie /\ cfg.ThrottleInitRequests
    THEN Err("MissingCookieError", "requesting cookie")
    ELSE IF cfg.dh # init.dhTransformId
    THEN Err("INVALID_KE_PAYLOAD", "Using different DH transform")
    ELSE IF ~init.proposalsOk THEN Err("acceptable proposals are missing", "")
    ELSE NoErr

notificationResponse(spi, nt, nBuf) ==
    [exch |-> "IKE_SA_INIT", resp |-> TRUE, spiI |-> spi, nt |-> nt, data |-> nBuf]

\* variant: the group id is written low octet first
InitErrorNeedsReply_LowFirst(init, config, remote, err) ==
    IF Cause(err) = "INVALID_KE_PAYLOAD"
    THEN <<notificationResponse(init.spiI, "INVALID_KE_PAYLOAD",
                                <<Lit(config.dh % 256), Lit(config.dh \div 256)>>)>>
    ELSE IF Cause(err) = "MissingCookieError"
    THEN <<notificationResponse(init.spiI, "COOKIE",
                                getCookie(init.nonce, init.spiI, remote))>>
    ELSE <<>>

\* InitErrorNeedsReply: <<>> is nil, <<m>> is the message to send
InitErrorNeedsReply(init, config, remote, err) ==
    IF Cause(err) = "INVALID_KE_PAYLOAD"
    THEN <<notificationResponse(init.spiI, "INVALID_KE_PAYLOAD", WriteB16(config.dh))>>
    ELSE IF Cause(err) = "MissingCookieError"
    THEN <<notificationResponse(init.spiI, "COOKIE",
                                getCookie(init.nonce, init.spiI, remote))>>
    ELSE <<>>

\* the responder's front door: a request that fails CheckInitRequest gets the
\* reply InitErrorNeedsReply builds, if any, and no session; otherwise a session
\* is created for it
ServeRequest(op, cfg, init, remote) ==
    LET err == CheckInitRequest(cfg, init, remote) IN
    [op |-> op, cfg |-> cfg, init |-> init, remote |-> remote, err |-> err,
     sent |-> IF err = NoErr THEN <<>> ELSE InitErrorNeedsReply(init, cfg, remote, err),
     created |-> (err = NoErr)]

NoSrv ==
    [op |-> "none", cfg |-> Config(FALSE, MODP_2048),
     init |-> initParams(TRUE, NoSpi, NoCookie, MODP_2048, 1, TRUE),
     remote |-> "none", err |-> NoErr, sent |-> <<>>, created |-> FALSE]

\* ------------------------------------------------ wire codec (protocol.go)
\* Octets are the integers 0..255 and a buffer is a sequence of octets.  The
\* buffers handed to the decoder have no spare capacity: cap(ib) = len(ib).
IKE_HEADER_LEN == 28
PAYLOAD_HEADER_LENGTH == 4
PayloadTypeNone == 0
PayloadTypeKE == 34
PayloadTypeNonce == 40
PayloadTypeN == 41
PayloadTypeD == 42
PayloadTypeSK == 46
PayloadTypeGSPM == 49
NonceMinLen == 16
NonceMaxLen == 256

\* the payload types of the switch in DecodePayloads that are modelled here
DecodablePayloadTypes ==
    {PayloadTypeKE, PayloadTypeNonce, PayloadTypeN, PayloadTypeD}

\* b[off:off+n] of a buffer (off counts from 0 as in the code)
Slice(b, off, n) == SubSeq(b, off + 1, off + n)

ReadB8(b, off) == b[off + 1]
ReadB16(b, off) == b[off + 1] * 256 + b[off + 2]
ReadB32(b, off) ==
    b[off + 1] * 16777216 + b[off + 2] * 65536 + b[off + 3] * 256 + b[off + 4]
PutB16(v) == <<(v \div 256) % 256, v % 256>>
PutB32(v) ==
    <<(v \div 16777216) % 256, (v \div 65536) % 256, (v \div 256) % 256, v % 256>>

\* big.Int.SetBytes keeps the magnitude only: leading zero octets are not part
\* of the number, and big.Int.Bytes gives the magnitude back
RECURSIVE bigSetBytes(_)
bigSetBytes(b) ==
    IF b = <<>> THEN <<>>
    ELSE IF Head(b) = 0 THEN bigSetBytes(Tail(b))
    ELSE b
bigBytes(x) == x

NoIkeHeader ==
    [SpiI |-> <<>>, SpiR |-> <<>>, NextPayload |-> PayloadTypeNone,
     MajorVersion |-> 0, MinorVersion |-> 0, ExchangeType |-> 0, Flags |-> 0,
     MsgId |-> 0, MsgLength |-> 0]

DecodeIkeHeader(b) ==
    IF Len(b) < IKE_HEADER_LEN
    THEN [err |-> "INVALID_SYNTAX", h |-> NoIkeHeader]
    ELSE LET h == [SpiI |-> Slice(b, 0, 8), SpiR |-> Slice(b, 8, 8),
                   NextPayload |-> ReadB8(b, 16),
                   MajorVersion |-> ReadB8(b, 17) \div 16,
                   MinorVersion |-> ReadB8(b, 17) % 16,
                   ExchangeType |-> ReadB8(b, 18), Flags |-> ReadB8(b, 19),
                   MsgId |-> ReadB32(b, 20), MsgLength |-> ReadB32(b, 24)] IN
         IF h.MsgLength < IKE_HEADER_LEN
         THEN [err |-> "INVALID_SYNTAX", h |-> NoIkeHeader]
         ELSE [err |-> "nil", h |-> h]

IkeHeaderEncode(h) ==
    h.SpiI \o h.SpiR
        \o <<h.NextPayload, ((h.MajorVersion * 16) % 256) + h.MinorVersion,
             h.ExchangeType, h.Flags>>
        \o PutB32(h.MsgId) \o PutB32(h.MsgLength)

encodePayloadHeader(pt, plen) ==
    <<pt, 0>> \o PutB16((plen + PAYLOAD_HEADER_LENGTH) % 65536)

\* c&0x80 is 0 or 128, so the comparison with 1 never holds
PayloadHeaderDecode(b) ==
    IF Len(b) < 4
    THEN [err |-> "INVALID_SYNTAX", NextPayload |-> 0, IsCritical |-> FALSE,
          PayloadLength |-> 0]
    ELSE [err |-> "nil", NextPayload |-> ReadB8(b, 0),
          IsCritical |-> (((ReadB8(b, 1) \div 128) % 2) * 128 = 1),
          PayloadLength |-> ReadB16(b, 2)]

\* a decoded payload: its type, its generic header and its own fields
Payload(type, hdr, f) == [type |-> type, hdr |-> hdr, f |-> f]

KePayloadDecode(hdr, b) ==
    IF Len(b) < 4
    THEN [err |-> "panic", p |-> Payload(PayloadTypeKE, hdr, <<>>)]
    ELSE [err |-> "nil",
          p |-> Payload(PayloadTypeKE, hdr,
                        [DhTransformId |-> ReadB16(b, 0),
                         KeyData |-> bigSetBytes(Slice(b, 4, Len(b) - 4))])]
KePayloadEncode(p) == PutB16(p.f.DhTransformId) \o <<0, 0>> \o bigBytes(p.f.KeyData)

NoncePayloadDecode(hdr, b) ==
    IF Len(b) < NonceMinLen \/ Len(b) > NonceMaxLen
    THEN [err |-> "INVALID_SYNTAX", p |-> Payload(PayloadTypeNonce, hdr, <<>>)]
    ELSE [err |-> "nil",
          p |-> Payload(PayloadTypeNonce, hdr, [Nonce |-> bigSetBytes(b)])]
NoncePayloadEncode(p) == bigBytes(p.f.Nonce)

NotifyPayloadDecode(hdr, b) ==
    IF Len(b) < 4
    THEN [err |-> "INVALID_SYNTAX", p |-> Payload(PayloadTypeN, hdr, <<>>)]
    ELSE LET spiLen == ReadB8(b, 1) IN
         IF Len(b) < 4 + spiLen
         THEN [err |-> "INVALID_SYNTAX", p |-> Payload(PayloadTypeN, hdr, <<>>)]
         ELSE [err |-> "nil",
               p |-> Payload(PayloadTypeN, hdr,
                             [ProtocolId |-> ReadB8(b, 0),
                              NotificationType |-> ReadB16(b, 2),
                              Spi |-> Slice(b, 4, spiLen),
                              Data |-> Slice(b, 4 + spiLen, Len(b) - 4 - spiLen)])]
NotifyPayloadEncode(p) ==
    <<p.f.ProtocolId, Len(p.f.Spi) % 256>> \o PutB16(p.f.NotificationType)
        \o p.f.Spi \o p.f.Data

DeletePayloadDecode(hdr, b) == [err |-> "nil", p |-> Payload(PayloadTypeD, hdr, <<>>)]
DeletePayloadEncode(p) == <<>>

\* payload.Decode(pbuf) for the payload the switch created
PayloadDecode(type, hdr, b) ==
    CASE type = PayloadTypeKE -> KePayloadDecode(hdr, b)
      [] type = PayloadTypeNonce -> NoncePayloadDecode(hdr, b)
      [] type = PayloadTypeN -> NotifyPayloadDecode(hdr, b)
      [] type = PayloadTypeD -> DeletePayloadDecode(hdr, b)

PayloadEncode(p) ==
    CASE p.type = PayloadTypeKE -> KePayloadEncode(p)
      [] p.type = PayloadTypeNonce -> NoncePayloadEncode(p)
      [] p.type = PayloadTypeN -> NotifyPayloadEncode(p)
      [] p.type = PayloadTypeD -> DeletePayloadEncode(p)

\* Payloads: Array in order of arrival, Map from payload type to Array index
makePayloads == [Map |-> <<>>, Array |-> <<>>]

PayloadsAdd(p, t) ==
    IF t.type \in DOMAIN p.Map
    THEN [p EXCEPT !.Array[p.Map[t.type]] = t]
    ELSE [Map |-> [x \in DOMAIN p.Map \cup {t.type} |->
                      IF x = t.type THEN Len(p.Array) + 1 ELSE p.Map[x]],
          Array |-> Append(p.Array, t)]

\* the outcome of decoding: err is "nil", an error value, or "panic" when the
\* goroutine dies of a slice out of range or of a call on a nil payload;
\* rest is len(b) when the loop was left
Decoded(err, h, pls, rest) ==
    [err |-> err, IkeHeader |-> h, Payloads |-> pls, rest |-> rest]

\* the loop of DecodePayloads; b is ib[off:end] and cap(b) is len(ib) - off
RECURSIVE DecodeLoop(_, _, _, _, _, _)
DecodeLoop(ib, h, nextPayload, off, end, pls) ==
    IF nextPayload = PayloadTypeNone THEN Decoded("nil", h, pls, end - off)
    ELSE IF Len(ib) - off < PAYLOAD_HEADER_LENGTH
    THEN Decoded("panic", h, pls, end - off)
    ELSE
    LET pHeader == PayloadHeaderDecode(Slice(ib, off, PAYLOAD_HEADER_LENGTH)) IN
    IF pHeader.err # "nil" THEN Decoded(pHeader.err, h, pls, end - off)
    ELSE IF \/ pHeader.PayloadLength < PAYLOAD_HEADER_LENGTH
            \/ pHeader.PayloadLength > Len(ib) - off
    THEN Decoded("panic", h, pls, end - off)
    ELSE IF nextPayload \notin DecodablePayloadTypes
    THEN Decoded("panic", h, pls, end - off)
    ELSE
    LET payload == PayloadDecode(nextPayload,
                       [NextPayload |-> pHeader.NextPayload,
                        IsCritical |-> pHeader.IsCritical,
                        PayloadLength |-> pHeader.PayloadLength],
                       Slice(ib, off + PAYLOAD_HEADER_LENGTH,
                             pHeader.PayloadLength - PAYLOAD_HEADER_LENGTH)) IN
    IF payload.err # "nil" THEN Decoded(payload.err, h, pls, end - off)
    ELSE IF pHeader.PayloadLength > end - off
    THEN Decoded("panic", h, pls, end - off)
    ELSE DecodeLoop(ib, h, pHeader.NextPayload, off + pHeader.PayloadLength, end,
                    PayloadsAdd(pls, payload.p))

\* DecodePayloads(ib, nil): no Tkm, so an SK payload cannot be opened
DecodePayloads(h, ib) ==
    IF Len(ib) < h.MsgLength
    THEN Decoded("INVALID_SYNTAX", h, makePayloads, 0)
    ELSE IF h.NextPayload = PayloadTypeSK
    THEN Decoded("cant decrypt, no tkm found", h, makePayloads,
                 h.MsgLength - IKE_HEADER_LEN)
    ELSE DecodeLoop(ib, h, h.NextPayload, IKE_HEADER_LEN, h.MsgLength, makePayloads)

\* DecodeHeader, then DecodePayloads when the header decoded
MessageDecode(ib) ==
    IF Len(ib) < IKE_HEADER_LEN
    THEN Decoded("panic", NoIkeHeader, makePayloads, 0)
    ELSE LET d == DecodeIkeHeader(Slice(ib, 0, IKE_HEADER_LEN)) IN
         IF d.err # "nil" THEN Decoded(d.err, NoIkeHeader, makePayloads, 0)
         ELSE DecodePayloads(d.h, ib)

RECURSIVE encodeArray(_)
encodeArray(a) ==
    IF a = <<>> THEN <<>>
    ELSE LET body == PayloadEncode(Head(a)) IN
         encodePayloadHeader(Head(a).hdr.NextPayload, Len(body)) \o body
             \o encodeArray(Tail(a))
encodePayloads(payloads) == encodeArray(payloads.Array)

\* Message.Encode(nil) of a message that carries no SK payload
MessageEncode(m) ==
    LET b == encodePayloads(m.Payloads) IN
    IkeHeaderEncode([m.IkeHeader EXCEPT !.MsgLength = Len(b) + IKE_HEADER_LEN]) \o b

NoCalc == [op |-> "none"]

\* ------------------------------------ SK payload: encrypt and MAC (tkm.go)
\* the octets of the codec as octets of the key schedule
LitSeq(b) == [j \in 1..Len(b) |-> Lit(b[j])]

\* suite.mac (hashMac): the HMAC of data under key, cut to macLen octets
hashMac(key, data) == SubSeq(prf(key, data), 1, macLen)

\* the block size of the CBC cipher, which cipherTransform gives as ivLen
BlockSize == ivLen

\* CryptBlocks of a CBC encrypter: octet j of the cipher text of clear under
\* key and iv
CbcMark == [k |-> <<>>, d |-> <<>>, i |-> 0 - 512]
CbcEncrypt(key, iv, clear) ==
    [j \in 1..Len(clear) |-> [k |-> key, d |-> <<CbcMark>> \o iv \o clear, i |-> j]]

\* CryptBlocks of a CBC decrypter: the clear text when key and iv are those of
\* the encryption, octets unrelated to it otherwise
CbcDecrypt(key, iv, ct) ==
    LET clear == IF ct # <<>> /\ Len(ct[1].d) = 1 + Len(iv) + Len(ct)
                 THEN SubSeq(ct[1].d, Len(iv) + 2, Len(ct[1].d))
                 ELSE <<>>
    IN IF ct # <<>> /\ ct = CbcEncrypt(key, iv, clear) THEN clear
       ELSE [j \in 1..Len(ct) |-> Lit(0)]

\* variant: the MAC of an incoming message is checked with the key of the
\* receiver's own direction
VerifyMac_OwnKey(t, b) ==
    LET key == IF t.isInitiator THEN t.skAi ELSE t.skAr
        l == Len(b)
    IN IF l < macLen THEN "panic"
       ELSE IF SubSeq(b, l - macLen + 1, l)
                 # SubSeq(hashMac(key, SubSeq(b, 1, l - macLen)), 1, macLen)
       THEN "HMAC verify failed: "
       ELSE "nil"

VerifyMac(t, b) ==
    LET key == IF t.isInitiator THEN t.skAr ELSE t.skAi
        l == Len(b)
    IN IF l < macLen THEN "panic"
       ELSE IF SubSeq(b, l - macLen + 1, l)
                 # SubSeq(hashMac(key, SubSeq(b, 1, l - macLen)), 1, macLen)
       THEN "HMAC verify failed: "
       ELSE "nil"

Decrypt(t, b) ==
    LET key == IF t.isInitiator THEN t.skEr ELSE t.skEi IN
    IF Len(b) < ivLen THEN [err |-> "panic", dec |-> <<>>]
    ELSE
    LET iv == SubSeq(b, 1, ivLen)
        ciphertext == SubSeq(b, ivLen + 1, Len(b))
    IN IF Len(ciphertext) % BlockSize # 0
       THEN [err |-> "ciphertext is not a multiple of the block size", dec |-> <<>>]
       ELSE IF ciphertext = <<>> THEN [err |-> "panic", dec |-> <<>>]
       ELSE LET clear == CbcDecrypt(key, iv, ciphertext)
                padlen == (clear[Len(clear)].i + 1) % 256
            IN IF padlen > Len(clear) THEN [err |-> "panic", dec |-> <<>>]
               ELSE [err |-> "nil", dec |-> SubSeq(clear, 1, Len(clear) - padlen)]

VerifyDecrypt(t, ike) ==
    IF Len(ike) < IKE_HEADER_LEN THEN [err |-> "panic", dec |-> <<>>]
    ELSE
    LET b == SubSeq(ike, IKE_HEADER_LEN + 1, Len(ike))
        err == VerifyMac(t, ike)
    IN IF err # "nil" THEN [err |-> err, dec |-> <<>>]
       ELSE IF Len(b) - macLen < PAYLOAD_HEADER_LENGTH THEN [err |-> "panic", dec |-> <<>>]
       ELSE Decrypt(t, SubSeq(b, PAYLOAD_HEADER_LENGTH + 1, Len(b) - macLen))

\* Encrypt with iv the octets of the random prime drawn
Encrypt(t, clear, iv) ==
    LET key == IF t.isInitiator THEN t.skEi ELSE t.skEr
        padlen == BlockSize - (Len(clear) % BlockSize)
        pad == [j \in 1..padlen |-> Lit(IF j = padlen THEN (padlen - 1) % 256 ELSE 0)]
    IN iv \o CbcEncrypt(key, iv, clear \o pad)

mac(t, b) == hashMac(IF t.isInitiator THEN t.skAi ELSE t.skAr, b)

\* EncryptMac of message s: b is the datagram, or the goroutine dies when s has
\* no payload
EncryptMac(t, s, iv) ==
    LET encr == Encrypt(t, LitSeq(encodePayloads(s.Payloads)), iv) IN
    IF s.Payloads.Array = <<>> THEN [err |-> "panic", b |-> <<>>]
    ELSE
    LET firstPayload == s.Payloads.Array[1].type
        b1 == LitSeq(encodePayloadHeader(firstPayload, (Len(encr) + macLen) % 65536))
                  \o encr
        hdr == [s.IkeHeader EXCEPT !.MsgLength = Len(b1) + IKE_HEADER_LEN + macLen]
        b2 == LitSeq(IkeHeaderEncode(hdr)) \o b1
    IN [err |-> "nil", b |-> b2 \o mac(t, b2)]

\* --------------------------------------- traffic selectors (protocol.go)
TS_IPV4_ADDR_RANGE == 7
TS_IPV6_ADDR_RANGE == 8
MIN_LEN_SELECTOR == 8
MIN_LEN_TRAFFIC_SELECTOR == 4

\* net.IPv4len or net.IPv6len for the selector type
iplen(stype) == IF stype = TS_IPV6_ADDR_RANGE THEN 16 ELSE 4

Selector(type, id, sport, eport, saddr, eaddr) ==
    [Type |-> type, IpProtocolId |-> id, StartPort |-> sport, Endport |-> eport,
     StartAddress |-> saddr, EndAddress |-> eaddr]

NoSelector == Selector(0, 0, 0, 0, <<>>, <<>>)

\* the ports are read at offsets 8 and 10
decodeSelector(b) ==
    IF Len(b) < MIN_LEN_SELECTOR
    THEN [err |-> "INVALID_SYNTAX", sel |-> NoSelector, used |-> 0]
    ELSE
    LET stype == ReadB8(b, 0)
        id == ReadB8(b, 1)
        slen == ReadB16(b, 2)
    IN IF Len(b) < slen \/ Len(b) < 8 + 2 * iplen(stype)
       THEN [err |-> "INVALID_SYNTAX", sel |-> NoSelector, used |-> 0]
       ELSE [err |-> "nil",
             sel |-> Selector(stype, id, ReadB16(b, 8), ReadB16(b, 10),
                              Slice(b, 8, iplen(stype)),
                              Slice(b, 8 + iplen(stype), iplen(stype))),
             used |-> 8 + 2 * iplen(stype)]

\* the ports are written at offsets 4 and 6, the length at offset 2 last
encodeSelector(sel) ==
    LET l == MIN_LEN_SELECTOR + Len(sel.StartAddress) + Len(sel.EndAddress) IN
    <<sel.Type % 256, sel.IpProtocolId % 256>> \o PutB16(l)
        \o PutB16(sel.StartPort) \o PutB16(sel.Endport)
        \o sel.StartAddress \o sel.EndAddress

RECURSIVE encodeSelectors(_)
encodeSelectors(sels) ==
    IF sels = <<>> THEN <<>>
    ELSE encodeSelector(Head(sels)) \o encodeSelectors(Tail(sels))

TrafficSelectorPayloadEncode(sels) ==
    <<Len(sels) % 256, 0, 0, 0>> \o encodeSelectors(sels)

\* the loop of TrafficSelectorPayload.Decode: the count is compared after
\* each selector
RECURSIVE TsDecodeLoop(_, _, _)
TsDecodeLoop(b, numSel, sels) ==
    IF Len(b) = 0 THEN [err |-> "nil", Selectors |-> sels]
    ELSE LET d == decodeSelector(b) IN
         IF d.err # "nil" THEN [err |-> d.err, Selectors |-> sels]
         ELSE IF Len(sels) + 1 # numSel
         THEN [err |-> "INVALID_SYNTAX", Selectors |-> Append(sels, d.sel)]
         ELSE TsDecodeLoop(SubSeq(b, d.used + 1, Len(b)), numSel,
                           Append(sels, d.sel))

TrafficSelectorPayloadDecode(b) ==
    IF Len(b) < MIN_LEN_TRAFFIC_SELECTOR
    THEN [err |-> "INVALID_SYNTAX", Selectors |-> <<>>]
    ELSE TsDecodeLoop(SubSeq(b, 5, Len(b)), ReadB8(b, 0), <<>>)

\* ------------------------------ the CBC routines of the cipher (crypto)
\* decrypt of b = iv | ciphertext under key: the clear text without its
\* padding; padlen is a byte, so the pad-length octet 255 gives padlen 0
decrypt(b, key) ==
    IF Len(b) < ivLen THEN [err |-> "panic", dec |-> <<>>]
    ELSE
    LET iv == SubSeq(b, 1, ivLen)
        ciphertext == SubSeq(b, ivLen + 1, Len(b))
    IN IF Len(ciphertext) % BlockSize # 0
       THEN [err |-> "ciphertext is not a multiple of the block size", dec |-> <<>>]
       ELSE IF ciphertext = <<>> THEN [err |-> "panic", dec |-> <<>>]
       ELSE LET clear == CbcDecrypt(key, iv, ciphertext)
                padlen == (clear[Len(clear)].i + 1) % 256
            IN IF padlen > BlockSize
               THEN [err |-> "pad length is larger than block size", dec |-> <<>>]
               ELSE [err |-> "nil", dec |-> SubSeq(clear, 1, Len(clear) - padlen)]

\* encrypt of clear under key, iv the octets of the random prime drawn
encrypt(clear, key, iv) ==
    LET padlen == BlockSize - (Len(clear) % BlockSize)
        pad == [j \in 1..padlen |-> Lit(IF j = padlen THEN (padlen - 1) % 256 ELSE 0)]
        padded == IF padlen # 0 THEN clear \o pad ELSE clear
    IN [err |-> "nil", b |-> iv \o CbcEncrypt(key, iv, padded)]

\* ------------------------------------------------------ steps of the system
NoMsg == Message("none", FALSE, FALSE, 0, 1, FALSE)

\* the observation of a step
Step(op, s, verdict, m, match) ==
    [op |-> op, s |-> s, verdict |-> verdict, sk |-> m.sk, match |-> match]

\* the message id is the one the session expects for its direction
Matches(o, m) == IF m.resp THEN m.id = o.msgIdReq ELSE m.id = o.msgIdResp

\* the part of the state space explored
Fits(o) ==
    /\ Len(o.incoming) <= MaxIncoming
    /\ Len(o.outgoing) <= MaxQueue
    /\ Len(o.events) <= MaxEvents
    /\ o.msgIdReq <= MaxMsgId
    /\ o.msgIdResp <= MaxMsgId
    /\ o.addSa <= MaxCalls
    /\ o.removeSa <= MaxCalls

\* a session is followed until its goroutine dies or blocks for ever
Alive(s) == s \in live /\ ~sess[s].panicked /\ ~sess[s].blocked

Init ==
    /\ tkm = [s \in Sessions |-> NoTkm]
    /\ \E t \in Sessions, ts \in BOOLEAN :
          /\ live = {t}
          /\ (t = "I" => ts)
          /\ sess = [s \in Sessions |->
                       IF s = "I" THEN NewInitiator(1, TRUE)
                       ELSE NewResponder(1, IF t = "R" THEN ts ELSE TRUE)]
    /\ wire = [s \in Sessions |-> <<>>]
    /\ forged = 0
    /\ calc = NoCalc
    /\ srv = NoSrv
    /\ last = Step("Init", "I", "none", NoMsg, TRUE)

\* the dispatcher hands the session a datagram of an arbitrary peer
PostForged(s, m) ==
    /\ Alive(s)
    /\ Peer(s) \notin live
    /\ forged < MaxForged
    /\ forged' = forged + 1
    /\ LET r == PostMessage(sess[s], m) IN
       /\ Fits(r.o)
       /\ sess' = [sess EXCEPT ![s] = r.o]
       /\ last' = Step("PostMessage", s, r.verdict, m, Matches(sess[s], m))
    /\ UNCHANGED <<wire, live, tkm, srv, calc>>

\* the dispatcher hands the session the next datagram the peer session wrote
Deliver(s) ==
    /\ Alive(s)
    /\ wire[Peer(s)] # <<>>
    /\ LET m == Head(wire[Peer(s)])
           r == PostMessage(sess[s], m) IN
       /\ Fits(r.o)
       /\ sess' = [sess EXCEPT ![s] = r.o]
       /\ last' = Step("PostMessage", s, r.verdict, m, Matches(sess[s], m))
    /\ wire' = [wire EXCEPT ![Peer(s)] = Tail(@)]
    /\ UNCHANGED <<live, forged, tkm, srv, calc>>

\* Run, case reply := <-o.outgoing, writeData succeeds
RunOutgoingOk(s) ==
    /\ Alive(s) /\ sess[s].running
    /\ sess[s].outgoing # <<>>
    /\ Peer(s) \in live => Len(wire[s]) < MaxWire
    /\ wire' = IF Peer(s) \in live THEN [wire EXCEPT ![s] = Append(@, Head(sess[s].outgoing))]
               ELSE wire
    /\ sess' = [sess EXCEPT ![s].outgoing = Tail(@)]
    /\ last' = Step("RunOutgoing", s, "written", Head(sess[s].outgoing), TRUE)
    /\ UNCHANGED <<live, forged, tkm, srv, calc>>

\* Run, case reply := <-o.outgoing, writeData fails: o.Close(err)
RunOutgoingFail(s) ==
    /\ Alive(s) /\ sess[s].running
    /\ sess[s].outgoing # <<>>
    /\ LET o2 == Close([sess[s] EXCEPT !.outgoing = Tail(@)]) IN
       /\ Fits(o2)
       /\ sess' = [sess EXCEPT ![s] = [o2 EXCEPT !.closeCalled = TRUE]]
       /\ last' = Step("RunOutgoing", s, "error", Head(sess[s].outgoing), TRUE)
    /\ UNCHANGED <<wire, live, forged, tkm, srv, calc>>

\* Run, case msg := <-o.incoming
RunIncoming(s) ==
    /\ Alive(s) /\ sess[s].running
    /\ sess[s].incoming # <<>>
    /\ LET m  == Head(sess[s].incoming)
           o  == [sess[s] EXCEPT !.incoming = Tail(@)]
           ok == handleEncryptedMessage(o, m)
           ev == IF ok THEN handleMessage(o, m) ELSE <<>>
           o2 == IF ev = <<>> THEN o ELSE PostEvent(o, ev[1]) IN
       /\ Fits(o2)
       /\ sess' = [sess EXCEPT ![s] = o2]
       /\ last' = Step("RunIncoming", s, IF ok THEN "handled" ELSE "error", m, TRUE)
    /\ UNCHANGED <<wire, live, forged, tkm, srv, calc>>

\* Run, case evt := <-o.Events()
RunEvent(s) ==
    /\ Alive(s) /\ sess[s].running
    /\ sess[s].events # <<>>
    /\ LET o2 == HandleEvent([sess[s] EXCEPT !.events = Tail(@)], Head(sess[s].events)) IN
       /\ Fits(o2)
       /\ sess' = [sess EXCEPT ![s] = o2]
       /\ last' = Step("RunEvent", s, Head(sess[s].events).ev, NoMsg, TRUE)
    /\ UNCHANGED <<wire, live, forged, tkm, srv, calc>>

\* Run, case <-o.Done()
RunDone(s) ==
    /\ Alive(s) /\ sess[s].running
    /\ sess[s].done
    /\ sess' = [sess EXCEPT ![s].running = FALSE]
    /\ last' = Step("RunDone", s, "none", NoMsg, TRUE)
    /\ UNCHANGED <<wire, live, forged, tkm, srv, calc>>

\* the application calls Close(err)
CloseCall(s) ==
    /\ Alive(s)
    /\ LET o2 == Close(sess[s]) IN
       /\ Fits(o2)
       /\ sess' = [sess EXCEPT ![s] = [o2 EXCEPT !.closeCalled = TRUE]]
       /\ last' = Step("Close", s, "none", NoMsg, TRUE)
    /\ UNCHANGED <<wire, live, forged, tkm, srv, calc>>

\* the application sends a keepalive on an established session
Keepalive(s) ==
    /\ Alive(s)
    /\ sess[s].State = "Mature"
    /\ LET o2 == SendEmptyInformational(sess[s], FALSE) IN
       /\ Fits(o2)
       /\ sess' = [sess EXCEPT ![s] = o2]
       /\ last' = Step("Keepalive", s, "none", NoMsg, TRUE)
    /\ UNCHANGED <<wire, live, forged, tkm, srv, calc>>

Next ==
    \/ \E s \in Sessions : \E m \in ForgedMsgs : PostForged(s, m)
    \/ \E s \in Sessions : RunOutgoingOk(s)
    \/ \E s \in Sessions : RunOutgoingFail(s)
    \/ \E s \in Sessions : RunIncoming(s)
    \/ \E s \in Sessions : RunEvent(s)
    \/ \E s \in Sessions : RunDone(s)
    \/ \E s \in Sessions : CloseCall(s)
    \/ \E s \in Sessions : Keepalive(s)

Spec == Init /\ [][Next]_vars

\* ----------------------------------------------------- the handshake, closed
\* both endpoints, a reliable in-order network, nothing but the two run loops
HandshakeInit ==
    /\ \E ci, cr \in CfgIds, ti, tr \in BOOLEAN :
          sess = [s \in Sessions |-> IF s = "I" THEN NewInitiator(ci, ti)
                                     ELSE NewResponder(cr, tr)]
    /\ wire = [s \in Sessions |-> <<>>]
    /\ live = Sessions
    /\ forged = 0
    /\ calc = NoCalc
    /\ srv = NoSrv
    /\ tkm = [s \in Sessions |-> NoTkm]
    /\ last = Step("Init", "I", "none", NoMsg, TRUE)

HandshakeNext ==
    \/ \E s \in Sessions : Deliver(s)
    \/ \E s \in Sessions : RunOutgoingOk(s)
    \/ \E s \in Sessions : RunIncoming(s)
    \/ \E s \in Sessions : RunEvent(s)
    \/ \E s \in Sessions : RunDone(s)

\* each goroutine and the network keep taking steps
Handshake ==
    /\ HandshakeInit
    /\ [][HandshakeNext]_vars
    /\ \A s \in Sessions :
          /\ WF_vars(Deliver(s))
          /\ WF_vars(RunOutgoingOk(s))
          /\ WF_vars(RunIncoming(s))
          /\ WF_vars(RunEvent(s))
          /\ WF_vars(RunDone(s))

\* ------------------------------------------- IKE_SA_INIT key agreement, alone
SessIdle ==
    /\ sess = [s \in Sessions |-> IF s = "I" THEN NewInitiator(1, TRUE)
                                  ELSE NewResponder(1, TRUE)]
    /\ wire = [s \in Sessions |-> <<>>]
    /\ live = Sessions
    /\ forged = 0
    /\ calc = NoCalc
    /\ srv = NoSrv
    /\ last = Step("Init", "I", "none", NoMsg, TRUE)

\* ---------------------------------------------- decoding and re-encoding
\* The datagrams given to the codec: an IKE header followed by a chain of at
\* most MaxPayloads payloads, with the length fields and the critical flag
\* right or wrong.
NonceBodies ==
    {[i \in 1..NonceMinLen |-> i], [i \in 1..NonceMinLen |-> i - 1], <<1, 2, 3>>}
KeBodies == {<<0, 14, 0, 0, 5, 6>>, <<0, 14, 0, 0, 0, 6>>}
NotifyBodies == {<<1, 0, 64, 4, 9>>, <<1, 0, 64, 5>>}
DeleteBodies == {<<1, 0, 0, 0>>, <<>>}

WirePayloads ==
    {[type |-> PayloadTypeNonce, body |-> b] : b \in NonceBodies}
        \cup {[type |-> PayloadTypeKE, body |-> b] : b \in KeBodies}
        \cup {[type |-> PayloadTypeN, body |-> b] : b \in NotifyBodies}
        \cup {[type |-> PayloadTypeD, body |-> b] : b \in DeleteBodies}
        \cup {[type |-> PayloadTypeGSPM, body |-> <<7>>]}

\* the payloads that RFC 7296 allows and the modelled decoder knows
ValidWirePayloads ==
    {p \in WirePayloads :
        /\ p.type \in {PayloadTypeNonce, PayloadTypeKE, PayloadTypeN}
        /\ p.type = PayloadTypeNonce => Len(p.body) >= NonceMinLen}

WireChains ==
    UNION {[1..n -> WirePayloads] : n \in 0..MaxPayloads}

\* the octets of chain c: crit is the flags octet of the first payload and
\* lenOff is added to the length field of the last one
RECURSIVE ChainBytes(_, _, _, _)
ChainBytes(c, k, crit, lenOff) ==
    IF k > Len(c) THEN <<>>
    ELSE <<IF k < Len(c) THEN c[k + 1].type ELSE PayloadTypeNone,
           IF k = 1 THEN crit ELSE 0>>
            \o PutB16(IF k = Len(c) THEN lenOff + PAYLOAD_HEADER_LENGTH + Len(c[k].body)
                      ELSE PAYLOAD_HEADER_LENGTH + Len(c[k].body))
            \o c[k].body
            \o ChainBytes(c, k + 1, crit, lenOff)

WireHeader(nextPayload, msgLength) ==
    <<1, 2, 3, 4, 5, 6, 7, 8, 0, 0, 0, 0, 0, 0, 0, 0, nextPayload, 32, 34, 8>>
        \o PutB32(0) \o PutB32(msgLength)

\* msgOff is added to the Length field of the header; trail follows the chain
WireBuffer(c, crit, lenOff, msgOff, trail) ==
    LET b == ChainBytes(c, 1, crit, lenOff) IN
    WireHeader(IF c = <<>> THEN PayloadTypeNone ELSE c[1].type,
               IKE_HEADER_LEN + Len(b) + msgOff) \o b \o trail

Trails == {<<>>, <<0, 0, 0, 4>>}

WireBuffers ==
    {WireBuffer(c, crit, lenOff, msgOff, trail) :
        c \in WireChains, crit \in {0, 128}, lenOff \in {0, 1, -1},
        msgOff \in {0, 4, -1}, trail \in Trails}
        \cup {WireHeader(PayloadTypeSK, IKE_HEADER_LEN), <<0, 0, 0, 0>>}

ValidWireBuffers ==
    {WireBuffer(c, 0, 0, 0, <<>>) :
        c \in UNION {[1..n -> ValidWirePayloads] : n \in 0..MaxPayloads}}

CodecInit ==
    /\ sess = [s \in Sessions |-> IF s = "I" THEN NewInitiator(1, TRUE)
                                  ELSE NewResponder(1, TRUE)]
    /\ wire = [s \in Sessions |-> <<>>]
    /\ live = {}
    /\ forged = 0
    /\ srv = NoSrv
    /\ tkm = [s \in Sessions |-> NoTkm]
    /\ last = Step("Init", "R", "none", NoMsg, TRUE)
    /\ \E w \in WireBuffers : calc = [op |-> "Receive", w |-> w]

\* DecodeHeader and DecodePayloads of the datagram
Decode ==
    /\ calc.op = "Receive"
    /\ calc' = [op |-> "Decode", w |-> calc.w, dec |-> MessageDecode(calc.w)]
    /\ UNCHANGED <<sess, wire, live, forged, tkm, srv, last>>

\* Encode of the message that was decoded
Encode ==
    /\ calc.op = "Decode"
    /\ calc.dec.err = "nil"
    /\ calc' = [op |-> "Encode", w |-> calc.w, dec |-> calc.dec,
                enc |-> MessageEncode(calc.dec)]
    /\ UNCHANGED <<sess, wire, live, forged, tkm, srv, last>>

CodecNext == Decode \/ Encode

CodecSpec == CodecInit /\ [][CodecNext]_vars

KeyInit ==
    /\ SessIdle
    /\ \E no \in Nonces, priv \in Privs, spi \in Spis :
          tkm = [s \in Sessions |-> IF s = "I" THEN NewTkmInitiator(no, priv, spi)
                                    ELSE NoTkm]

\* the responder is created for the initiator's IKE_SA_INIT request
KeyNewResponder ==
    /\ tkm["R"].phase = "none"
    /\ \E no \in Nonces, priv \in Privs, spi \in Spis :
          LET init == InitFromSession(tkm["I"]) IN
          tkm' = [tkm EXCEPT !["R"] =
                    NewTkmResponder(init.dhPublic, init.nonce, init.spiI, no, priv, spi)]
    /\ UNCHANGED <<sess, wire, live, forged, srv, calc, last>>

\* a session handles the peer's IKE_SA_INIT message
KeyHandleInit(s) ==
    /\ tkm[s].phase = "init"
    /\ tkm[Peer(s)].phase # "none"
    /\ tkm' = [tkm EXCEPT ![s] = HandleInitForSession(tkm[s], InitFromSession(tkm[Peer(s)]))]
    /\ UNCHANGED <<sess, wire, live, forged, srv, calc, last>>

\* the messages a session protects: an IKE header that announces an SK payload
\* and the payloads of a decoded chain
SkChains ==
    {<<>>,
     <<[type |-> PayloadTypeN, body |-> <<1, 0, 64, 4, 9>>]>>,
     <<[type |-> PayloadTypeKE, body |-> <<0, 14, 0, 0, 5, 6>>],
       [type |-> PayloadTypeN, body |-> <<1, 0, 64, 5>>]>>}
SkMessages ==
    {LET d == MessageDecode(WireBuffer(c, 0, 0, 0, <<>>)) IN
     [IkeHeader |-> [d.IkeHeader EXCEPT !.NextPayload = PayloadTypeSK],
      Payloads |-> d.Payloads] : c \in SkChains}
Ivs == {[j \in 1..ivLen |-> Lit(2 * j + 1)]}

\* session s protects a message with its keys
KeyEncryptMac(s) ==
    /\ tkm[s].phase = "keys"
    /\ \E m \in SkMessages, iv \in Ivs :
          calc' = [op |-> "EncryptMac", from |-> s, to |-> s,
                   clear |-> LitSeq(encodePayloads(m.Payloads)),
                   enc |-> EncryptMac(tkm[s], m, iv),
                   res |-> [err |-> "none", dec |-> <<>>]]
    /\ UNCHANGED <<sess, wire, live, forged, tkm, srv, last>>

\* session r is given the datagram last protected: by its peer, or its own
\* datagram reflected to it
KeyVerifyDecrypt(r) ==
    /\ tkm[r].phase = "keys"
    /\ calc.op = "EncryptMac"
    /\ calc.enc.err = "nil"
    /\ calc' = [calc EXCEPT !.op = "VerifyDecrypt", !.to = r,
                            !.res = VerifyDecrypt(tkm[r], calc.enc.b)]
    /\ UNCHANGED <<sess, wire, live, forged, tkm, srv, last>>

KeyNext ==
    \/ KeyNewResponder
    \/ \E s \in Sessions : KeyHandleInit(s)
    \/ \E s \in Sessions : KeyEncryptMac(s)
    \/ \E s \in Sessions : KeyVerifyDecrypt(s)

KeySpec == KeyInit /\ [][KeyNext]_vars

\* --------------------------------------- the responder's IKE_SA_INIT checks
\* the cookies a peer can present: none, one the responder has issued for some
\* request, or bytes of its own
InitNonces == {1, 256}

Cookies ==
    {NoCookie, <<Lit(7)>>}
       \cup {getCookie(n, spi, r) : n \in InitNonces, spi \in Spis, r \in Remotes}

InitRequests ==
    {initParams(i, spi, c, dh, n, ok) :
        i \in BOOLEAN, spi \in Spis, c \in Cookies, dh \in DhTransformIds,
        n \in InitNonces, ok \in BOOLEAN}

ServeInitStart ==
    /\ sess = [s \in Sessions |-> IF s = "I" THEN NewInitiator(1, TRUE)
                                  ELSE NewResponder(1, TRUE)]
    /\ wire = [s \in Sessions |-> <<>>]
    /\ live = {}
    /\ forged = 0
    /\ calc = NoCalc
    /\ last = Step("Init", "R", "none", NoMsg, TRUE)
    /\ tkm = [s \in Sessions |-> NoTkm]
    /\ \E throttle \in BOOLEAN, dh \in DhTransformIds :
          srv = [NoSrv EXCEPT !.cfg = Config(throttle, dh)]

\* an IKE_SA_INIT message arrives from some address
ServeInit ==
    /\ \E init \in InitRequests, remote \in Remotes :
          srv' = ServeRequest("ServeInit", srv.cfg, init, remote)
    /\ UNCHANGED <<sess, wire, live, forged, tkm, calc, last>>

\* the peer that was sent a COOKIE notification repeats its request with the
\* notification data as its cookie
RetryWithCookie ==
    /\ srv.sent # <<>>
    /\ srv.sent[1].nt = "COOKIE"
    /\ srv' = ServeRequest("RetryWithCookie", srv.cfg,
                           [srv.init EXCEPT !.cookie = srv.sent[1].data], srv.remote)
    /\ UNCHANGED <<sess, wire, live, forged, tkm, calc, last>>

ServeInitNext == ServeInit \/ RetryWithCookie

ServeInitSpec == ServeInitStart /\ [][ServeInitNext]_vars

\* ------------------------------------------------------- prf+ on its own
\* prfplus is applied to a key, a seed and a length: the short lengths, and
\* the two lengths on either side of 255 rounds of the prf
PrfKeys == {<<Lit(1)>>, <<Lit(2), Lit(3)>>}
PrfSeeds == {<<Lit(7)>>, <<Lit(7), Lit(8)>>, <<Lit(0), Lit(7), Lit(8)>>}
PrfTop == 255 * prfLen + 1
PrfLengths == (0..MaxKeymat) \cup {PrfTop - 1, PrfTop}

PrfInit ==
    /\ sess = [s \in Sessions |-> IF s = "I" THEN NewInitiator(1, TRUE)
                                  ELSE NewResponder(1, TRUE)]
    /\ wire = [s \in Sessions |-> <<>>]
    /\ live = {}
    /\ forged = 0
    /\ srv = NoSrv
    /\ tkm = [s \in Sessions |-> NoTkm]
    /\ last = Step("Init", "R", "none", NoMsg, TRUE)
    /\ \E key \in PrfKeys, data \in PrfSeeds, bits \in PrfLengths :
          calc = [op |-> "request", key |-> key, data |-> data, bits |-> bits]

Prfplus ==
    /\ calc.op = "request"
    /\ calc' = [calc EXCEPT !.op = "prfplus"] @@
                   ("out" :> prfplus(calc.key, calc.data, calc.bits))
    /\ UNCHANGED <<sess, wire, live, forged, tkm, srv, last>>

PrfSpec == PrfInit /\ [][Prfplus]_vars

\* ------------------------------------------- the CBC routines on their own
\* encrypt is given a clear text; decrypt is given the cipher text of a clear
\* text that ends in any pad-length octet, as a peer may have built it
CryptKeys == {<<Lit(9)>>}
CryptIvs == {<<Lit(255), Lit(241)>>, <<Lit(192), Lit(5)>>}
CryptOctets == {Lit(0), Lit(7)}
MaxClear == 3
ClearTexts == UNION {[1..n -> CryptOctets] : n \in 0..MaxClear}
PaddedTexts ==
    {<<>>} \cup {body \o <<Lit(p)>> : body \in ClearTexts, p \in 0..255}

CryptInit ==
    /\ sess = [s \in Sessions |-> IF s = "I" THEN NewInitiator(1, TRUE)
                                  ELSE NewResponder(1, TRUE)]
    /\ wire = [s \in Sessions |-> <<>>]
    /\ live = {}
    /\ forged = 0
    /\ srv = NoSrv
    /\ tkm = [s \in Sessions |-> NoTkm]
    /\ last = Step("Init", "R", "none", NoMsg, TRUE)
    /\ \E key \in CryptKeys, iv \in CryptIvs :
          \/ \E x \in ClearTexts :
                calc = [op |-> "clear", key |-> key, iv |-> iv, clear |-> x]
          \/ \E x \in PaddedTexts :
                calc = [op |-> "padded", key |-> key, iv |-> iv, clear |-> x]

\* encrypt, and decrypt of what it gave
CryptEncrypt ==
    /\ calc.op = "clear"
    /\ LET e == encrypt(calc.clear, calc.key, calc.iv) IN
       calc' = [calc EXCEPT !.op = "encrypt"] @@
                   ("b" :> e.b) @@
                   ("padded" :> CbcDecrypt(calc.key, calc.iv,
                                           SubSeq(e.b, ivLen + 1, Len(e.b)))) @@
                   ("res" :> decrypt(e.b, calc.key))
    /\ UNCHANGED <<sess, wire, live, forged, tkm, srv, last>>

\* decrypt of the cipher text of calc.clear
CryptDecrypt ==
    /\ calc.op = "padded"
    /\ LET b == calc.iv \o CbcEncrypt(calc.key, calc.iv, calc.clear) IN
       calc' = [calc EXCEPT !.op = "decrypt"] @@
                   ("b" :> b) @@
                   ("padded" :> calc.clear) @@
                   ("res" :> decrypt(b, calc.key))
    /\ UNCHANGED <<sess, wire, live, forged, tkm, srv, last>>

CryptNext == CryptEncrypt \/ CryptDecrypt

CryptSpec == CryptInit /\ [][CryptNext]_vars

\* --------------------------------------- traffic selectors on their own
MaxSelectors == 2
TsCounts == 0..(MaxSelectors + 1)
Ports == {0, 80, 65535}
V4Addresses == {<<10, 0, 0, 1>>, <<192, 168, 255, 254>>}
V6Addresses == {[j \in 1..16 |-> IF j = 16 THEN 1 ELSE 0],
                [j \in 1..16 |-> IF j = 1 THEN 32 ELSE IF j = 2 THEN 1 ELSE 255]}
Selectors ==
    {Selector(TS_IPV4_ADDR_RANGE, id, sp, ep, sa, ea) :
        id \in {0, 6}, sp \in Ports, ep \in Ports,
        sa \in V4Addresses, ea \in V4Addresses}
    \cup
    {Selector(TS_IPV6_ADDR_RANGE, id, sp, ep, sa, ea) :
        id \in {0, 6}, sp \in Ports, ep \in Ports,
        sa \in V6Addresses, ea \in V6Addresses}

\* selectors as a peer puts them on the wire: type, protocol, length, start
\* port, end port, start address, end address
WireSelector(sel) ==
    <<sel.Type, sel.IpProtocolId>>
        \o PutB16(8 + Len(sel.StartAddress) + Len(sel.EndAddress))
        \o PutB16(sel.StartPort) \o PutB16(sel.Endport)
        \o sel.StartAddress \o sel.EndAddress
WireSelectors ==
    {WireSelector(Selector(TS_IPV4_ADDR_RANGE, 0, 0, 65535,
                           <<10, 0, 0, 1>>, <<10, 0, 0, 1>>)),
     WireSelector(Selector(TS_IPV6_ADDR_RANGE, 6, 80, 80,
                           [j \in 1..16 |-> IF j = 16 THEN 1 ELSE 0],
                           [j \in 1..16 |-> IF j = 16 THEN 1 ELSE 0]))}
RECURSIVE Concat(_)
Concat(ss) == IF ss = <<>> THEN <<>> ELSE Head(ss) \o Concat(Tail(ss))
TsTrails == {<<>>, <<7, 0, 0>>}

TsInit ==
    /\ sess = [s \in Sessions |-> IF s = "I" THEN NewInitiator(1, TRUE)
                                  ELSE NewResponder(1, TRUE)]
    /\ wire = [s \in Sessions |-> <<>>]
    /\ live = {}
    /\ forged = 0
    /\ srv = NoSrv
    /\ tkm = [s \in Sessions |-> NoTkm]
    /\ last = Step("Init", "R", "none", NoMsg, TRUE)
    /\ \/ \E sel \in Selectors : calc = [op |-> "sel", sel |-> sel]
       \/ \E n \in TsCounts, k \in 0..MaxSelectors, trail \in TsTrails :
             \E ws \in [1..k -> WireSelectors] :
                calc = [op |-> "body", n |-> n, k |-> k,
                        wellFormed |-> (trail = <<>>),
                        b |-> <<n, 0, 0, 0>> \o Concat(ws) \o trail]

\* encodeSelector, and decodeSelector of what it gave
SelectorRoundTrip ==
    /\ calc.op = "sel"
    /\ LET b == encodeSelector(calc.sel) IN
       calc' = [calc EXCEPT !.op = "selector"] @@
                   ("b" :> b) @@ ("res" :> decodeSelector(b))
    /\ UNCHANGED <<sess, wire, live, forged, tkm, srv, last>>

\* TrafficSelectorPayload.Decode of the body of a TSi or TSr payload, and
\* Encode of the selectors it gave
TsPayloadDecode ==
    /\ calc.op = "body"
    /\ LET d == TrafficSelectorPayloadDecode(calc.b) IN
       calc' = [calc EXCEPT !.op = "ts"] @@
                   ("res" :> d) @@
                   ("enc" :> TrafficSelectorPayloadEncode(d.Selectors))
    /\ UNCHANGED <<sess, wire, live, forged, tkm, srv, last>>

TsNext == SelectorRoundTrip \/ TsPayloadDecode

TsSpec == TsInit /\ [][TsNext]_vars

\* ------------------------------ IKE_SA_INIT and the signature algorithms
\* each session is configured with an authentication method; the peer's
\* IKE_SA_INIT message carries any of the notifications
NotificationLists ==
    {<<>>, <<"SIGNATURE_HASH_ALGORITHMS">>, <<"NAT_DETECTION_SOURCE_IP">>,
     <<"NAT_DETECTION_SOURCE_IP", "NAT_DETECTION_DESTINATION_IP">>,
     <<"NAT_DETECTION_SOURCE_IP", "NAT_DETECTION_DESTINATION_IP",
       "SIGNATURE_HASH_ALGORITHMS">>}

SigInit ==
    /\ sess = [s \in Sessions |-> IF s = "I" THEN NewInitiator(1, TRUE)
                                  ELSE NewResponder(1, TRUE)]
    /\ wire = [s \in Sessions |-> <<>>]
    /\ live = Sessions
    /\ forged = 0
    /\ srv = NoSrv
    /\ last = Step("Init", "I", "none", NoMsg, TRUE)
    /\ \E no \in Nonces, priv \in Privs, spi \in Spis :
          tkm = [s \in Sessions |-> IF s = "I" THEN NewTkmInitiator(no, priv, spi)
                                    ELSE NoTkm]
    /\ \E auth \in [Sessions -> AuthMethods] :
          calc = [op |-> "cfg", auth |-> auth, s |-> "I", ns |-> <<>>,
                  err |-> "none"]

\* session s handles the peer's IKE_SA_INIT message
SigHandleInit(s) ==
    /\ tkm[s].phase = "init"
    /\ tkm[Peer(s)].phase # "none"
    /\ \E ns \in NotificationLists :
          LET r == HandleInitWithNotifications(tkm[s], calc.auth[s],
                                               InitFromSession(tkm[Peer(s)]), ns)
          IN /\ tkm' = [tkm EXCEPT ![s] = r.t]
             /\ calc' = [calc EXCEPT !.op = "HandleInit", !.s = s, !.ns = ns,
                                     !.err = r.err]
    /\ UNCHANGED <<sess, wire, live, forged, srv, last>>

SigNext ==
    \/ KeyNewResponder
    \/ \E s \in Sessions : SigHandleInit(s)

SigSpec == SigInit /\ [][SigNext]_vars

\* ------------------------------------- the run loop and its outgoing queue
\* A handler that Run executes sends on outgoing with the queue full: Run is
\* the only receiver, so the send never returns.  The session is left as it
\* was when the handler was entered, marked blocked.
FitsButOutgoing(o) ==
    /\ Len(o.incoming) <= MaxIncoming
    /\ Len(o.events) <= MaxEvents
    /\ o.msgIdReq <= MaxMsgId
    /\ o.msgIdResp <= MaxMsgId
    /\ o.addSa <= MaxCalls
    /\ o.removeSa <= MaxCalls

Overfull(o) == Len(o.outgoing) > MaxQueue

Blocked(o, o2) == IF Overfull(o2) THEN [o EXCEPT !.blocked = TRUE] ELSE o2

\* Run, case reply := <-o.outgoing, writeData fails: o.Close(err)
BlockRunOutgoingFail(s) ==
    /\ Alive(s) /\ sess[s].running
    /\ sess[s].outgoing # <<>>
    /\ LET o  == [sess[s] EXCEPT !.outgoing = Tail(@)]
           o2 == [Close(o) EXCEPT !.closeCalled = TRUE] IN
       /\ FitsButOutgoing(o2)
       /\ sess' = [sess EXCEPT ![s] = Blocked(o, o2)]
       /\ last' = Step("RunOutgoing", s, IF Overfull(o2) THEN "blocked" ELSE "error",
                       Head(sess[s].outgoing), TRUE)
    /\ UNCHANGED <<wire, live, forged, tkm, srv, calc>>

\* Run, case evt := <-o.Events()
BlockRunEvent(s) ==
    /\ Alive(s) /\ sess[s].running
    /\ sess[s].events # <<>>
    /\ LET o  == [sess[s] EXCEPT !.events = Tail(@)]
           o2 == HandleEvent(o, Head(sess[s].events)) IN
       /\ FitsButOutgoing(o2)
       /\ sess' = [sess EXCEPT ![s] = Blocked(o, o2)]
       /\ last' = Step("RunEvent", s,
                       IF Overfull(o2) THEN "blocked" ELSE Head(sess[s].events).ev,
                       NoMsg, TRUE)
    /\ UNCHANGED <<wire, live, forged, tkm, srv, calc>>

BlockNext ==
    \/ \E s \in Sessions : \E m \in ForgedMsgs : PostForged(s, m)
    \/ \E s \in Sessions : RunOutgoingOk(s)
    \/ \E s \in Sessions : BlockRunOutgoingFail(s)
    \/ \E s \in Sessions : RunIncoming(s)
    \/ \E s \in Sessions : BlockRunEvent(s)
    \/ \E s \in Sessions : RunDone(s)
    \/ \E s \in Sessions : CloseCall(s)
    \/ \E s \in Sessions : Keepalive(s)

BlockSpec == Init /\ [][BlockNext]_vars

\* ------------------------------------ the dispatcher and the run loop
\* PostMessage runs on the dispatcher's goroutine, statement by statement,
\* while Run goes on: isMessageValid, the test of Context.Err(), the send on
\* incoming.  No lock or channel orders them with the steps of Run.
\* The datagrams posted are those of a peer that follows the protocol, with
\* the first message id.
RaceMsgs ==
    {m \in ForgedMsgs : /\ m.spiOk /\ m.macOk /\ m.decOk /\ m.cfg = 1
                        /\ m.id = 0
                        /\ m.sk = (m.exch # "IKE_SA_INIT")}

Posting(pc, m) == <<[pc |-> pc, m |-> m]>>

\* the dispatcher calls PostMessage(m)
PostEnter(s, m) ==
    /\ Alive(s)
    /\ sess[s].posting = <<>>
    /\ forged < MaxForged
    /\ forged' = forged + 1
    /\ sess' = [sess EXCEPT ![s].posting = Posting("valid", m)]
    /\ last' = Step("PostEnter", s, "none", m, Matches(sess[s], m))
    /\ UNCHANGED <<wire, live, tkm, srv, calc>>

\* PostMessage: o.isMessageValid(m)
PostValid(s) ==
    /\ Alive(s)
    /\ sess[s].posting # <<>> /\ sess[s].posting[1].pc = "valid"
    /\ LET m == sess[s].posting[1].m
           v == isMessageValid(sess[s], m) IN
       /\ Fits(v.o)
       /\ sess' = [sess EXCEPT ![s] =
                     [v.o EXCEPT !.posting = IF v.err # "nil" THEN <<>>
                                             ELSE Posting("check", m)]]
       /\ last' = Step("PostValid", s, v.err, m, Matches(sess[s], m))
    /\ UNCHANGED <<wire, live, forged, tkm, srv, calc>>

\* PostMessage: if o.Context.Err() != nil
PostCheck(s) ==
    /\ Alive(s)
    /\ sess[s].posting # <<>> /\ sess[s].posting[1].pc = "check"
    /\ LET m == sess[s].posting[1].m IN
       /\ sess' = [sess EXCEPT ![s].posting = IF sess[s].done THEN <<>>
                                              ELSE Posting("send", m)]
       /\ last' = Step("PostCheck", s, IF sess[s].done THEN "closing" ELSE "nil",
                       m, TRUE)
    /\ UNCHANGED <<wire, live, forged, tkm, srv, calc>>

\* PostMessage: o.incoming <- m.  The send waits for room; on the channel
\* that Finished has closed it panics.
PostSend(s) ==
    /\ Alive(s)
    /\ sess[s].posting # <<>> /\ sess[s].posting[1].pc = "send"
    /\ sess[s].closed \/ Len(sess[s].incoming) < MaxIncoming
    /\ LET m == sess[s].posting[1].m IN
       /\ sess' = [sess EXCEPT ![s] =
                     IF sess[s].closed
                     THEN [@ EXCEPT !.panicked = TRUE, !.posting = <<>>]
                     ELSE [@ EXCEPT !.incoming = Append(@, m), !.posting = <<>>]]
       /\ last' = Step("PostSend", s, IF sess[s].closed THEN "panic" ELSE "accepted",
                       m, TRUE)
    /\ UNCHANGED <<wire, live, forged, tkm, srv, calc>>

RaceNext ==
    \/ \E s \in Sessions : \E m \in RaceMsgs : PostEnter(s, m)
    \/ \E s \in Sessions : PostValid(s)
    \/ \E s \in Sessions : PostCheck(s)
    \/ \E s \in Sessions : PostSend(s)
    \/ \E s \in Sessions : RunOutgoingOk(s)
    \/ \E s \in Sessions : RunOutgoingFail(s)
    \/ \E s \in Sessions : RunIncoming(s)
    \/ \E s \in Sessions : RunEvent(s)
    \/ \E s \in Sessions : RunDone(s)
    \/ \E s \in Sessions : CloseCall(s)

RaceSpec == Init /\ [][RaceNext]_vars

\* ------------------------------------------------ shutdown, write_fn succeeding
\* One session, the dispatcher and the application; writeData never fails.
\* The dispatcher posts at most MaxForged datagrams, so the queue of events
\* and the counters stay small by themselves: the steps of Run are taken
\* whatever they put on events.  Run's select keeps choosing each case that
\* stays ready.

\* Run, case msg := <-o.incoming
ShutdownRunIncoming(s) ==
    /\ Alive(s) /\ sess[s].running
    /\ sess[s].incoming # <<>>
    /\ LET m  == Head(sess[s].incoming)
           o  == [sess[s] EXCEPT !.incoming = Tail(@)]
           ok == handleEncryptedMessage(o, m)
           ev == IF ok THEN handleMessage(o, m) ELSE <<>>
           o2 == IF ev = <<>> THEN o ELSE PostEvent(o, ev[1]) IN
       /\ sess' = [sess EXCEPT ![s] = o2]
       /\ last' = Step("RunIncoming", s, IF ok THEN "handled" ELSE "error", m, TRUE)
    /\ UNCHANGED <<wire, live, forged, tkm, srv, calc>>

\* Run, case evt := <-o.Events()
ShutdownRunEvent(s) ==
    /\ Alive(s) /\ sess[s].running
    /\ sess[s].events # <<>>
    /\ LET o  == [sess[s] EXCEPT !.events = Tail(@)]
           o2 == HandleEvent(o, Head(sess[s].events)) IN
       /\ sess' = [sess EXCEPT ![s] = Blocked(o, o2)]
       /\ last' = Step("RunEvent", s,
                       IF Overfull(o2) THEN "blocked" ELSE Head(sess[s].events).ev,
                       NoMsg, TRUE)
    /\ UNCHANGED <<wire, live, forged, tkm, srv, calc>>

ShutdownNext ==
    \/ \E s \in Sessions : \E m \in RaceMsgs : PostForged(s, m)
    \/ \E s \in Sessions : RunOutgoingOk(s)
    \/ \E s \in Sessions : ShutdownRunIncoming(s)
    \/ \E s \in Sessions : ShutdownRunEvent(s)
    \/ \E s \in Sessions : RunDone(s)
    \/ \E s \in Sessions : CloseCall(s)

Shutdown ==
    /\ Init
    /\ [][ShutdownNext]_vars
    /\ \A s \in Sessions :
          /\ WF_vars(RunOutgoingOk(s))
          /\ WF_vars(ShutdownRunIncoming(s))
          /\ WF_vars(ShutdownRunEvent(s))
          /\ WF_vars(RunDone(s))

\* ---------------------------------------------------------------- claims
\* C1: a message whose id does not match the counter of its direction is dropped
\* by PostMessage: it is not queued and the session (msgIdReq, msgIdResp, State,
\* outgoing) is left as it was.
C1_MismatchDropped ==
    [][(last'.op = "PostMessage" /\ ~last'.match)
          => (last'.verdict # "accepted" /\ sess' = sess)]_vars

C1_Witness ==
    /\ last.op = "PostMessage" /\ ~last.match /\ last.verdict = "seq"
    /\ sess[last.s].State \in {"Idle", "Mature"}

\* C2: msgIdReq changes only in the step in which PostMessage accepts a response;
\* a response that is dropped leaves it unchanged.
C2_ReqIdOnlyOnAcceptedResponse ==
    [][\A s \in Sessions :
          sess'[s].msgIdReq # sess[s].msgIdReq
             => (last'.op = "PostMessage" /\ last'.s = s /\ last'.verdict = "accepted")]_vars

\* C3: the reply to an accepted request of the peer (IKE_SA_INIT, IKE_AUTH, the
\* refusal of CREATE_CHILD_SA, the acknowledgement of a Delete) is a response
\* carrying the request's id, and sending it advances msgIdResp by one.
RepliedTo(e) ==
    /\ e.req
    /\ \/ e.ev \in {"MSG_INIT", "MSG_AUTH", "MSG_INFORMATIONAL"}
       \/ e.ev = "AUTH_FAIL" /\ e.err = "NO_ADDITIONAL_SAS"

C3_ReplyCarriesRequestId ==
    [][\A s \in Sessions :
          (/\ last'.op = "RunEvent" /\ last'.s = s
           /\ RepliedTo(Head(sess[s].events))
           /\ Len(sess'[s].outgoing) > Len(sess[s].outgoing))
          => LET r == sess'[s].outgoing[Len(sess'[s].outgoing)] IN
             /\ r.resp
             /\ r.id = Head(sess[s].events).id
             /\ sess'[s].msgIdResp = sess[s].msgIdResp + 1]_vars

\* C4: msgIdReq and msgIdResp never decrease: a step leaves each unchanged or
\* adds one to it.
C4_CountersMonotonic ==
    [][\A s \in Sessions :
          /\ sess'[s].msgIdReq \in {sess[s].msgIdReq, sess[s].msgIdReq + 1}
          /\ sess'[s].msgIdResp \in {sess[s].msgIdResp, sess[s].msgIdResp + 1}]_vars

C4_Witness ==
    \E s \in Sessions : sess[s].msgIdResp = 2 /\ sess[s].msgIdReq = 1

\* C5: no two different requests of a session are sent under the same id.
C5_OneRequestPerId ==
    \A s \in Sessions :
       \A i, j \in DOMAIN sess[s].outgoing :
          (/\ ~sess[s].outgoing[i].resp /\ ~sess[s].outgoing[j].resp
           /\ sess[s].outgoing[i].id = sess[s].outgoing[j].id)
          => sess[s].outgoing[i] = sess[s].outgoing[j]

\* C6: with the same configuration on both sides the handshake completes with the
\* initiator's msgIdReq and the responder's msgIdResp both at 2.
SameConfig ==
    /\ sess["I"].cfg = sess["R"].cfg
    /\ sess["I"].ts /\ sess["R"].ts

C7_UnencryptedOnlyIdleStart ==
    [][\A s \in Sessions :
          (/\ last'.op = "PostMessage" /\ last'.s = s /\ ~last'.sk
           /\ sess[s].State \notin {"Idle", "Start"})
          => (last'.verdict # "accepted" /\ sess'[s] = sess[s])]_vars

C7_Witness ==
    /\ last.op = "PostMessage" /\ ~last.sk /\ last.match
    /\ last.verdict # "accepted"
    /\ sess[last.s].State \in {"InitWait", "ResponderInit", "Mature", "Closing"}

\* C8: with the same configuration on both sides, a reliable network and fair
\* scheduling, both sessions eventually reach Mature.
C8_BothMature ==
    SameConfig => <>(sess["I"].State = "Mature" /\ sess["R"].State = "Mature")

\* C9: on_add_sa is invoked at most once per session, only in the step that
\* handles a valid IKE_AUTH and enters Mature, and a session in Mature has had it
\* invoked exactly once.
C9_AddSaOnceOnMature ==
    [][\A s \in Sessions :
          /\ sess'[s].addSa <= 1
          /\ sess'[s].State = "Mature" => sess'[s].addSa = 1
          /\ sess'[s].addSa # sess[s].addSa
                => /\ sess[s].State # "Mature" /\ sess'[s].State = "Mature"
                   /\ Head(sess[s].events).ev = "MSG_AUTH"
                   /\ Head(sess[s].events).cfg = sess[s].cfg]_vars

C9_Witness ==
    sess["R"].State = "Mature" /\ sess["R"].addSa = 1 /\ last.op = "RunEvent"

\* C10: once both sides have handled IKE_SA_INIT they have called IsaCreate on the
\* same Ni, Nr, DH shared secret, SPIi and SPIr and hold the same seven keys.
IsaInputs(t) == <<t.Ni, t.Nr, t.DhShared, t.IkeSpiI, t.IkeSpiR>>

SkKeys(t) == <<t.skD, t.skAi, t.skAr, t.skEi, t.skEr, t.skPi, t.skPr>>

C10_SameKeys ==
    (tkm["I"].phase = "keys" /\ tkm["R"].phase = "keys")
       => /\ IsaInputs(tkm["I"]) = IsaInputs(tkm["R"])
          /\ SkKeys(tkm["I"]) = SkKeys(tkm["R"])
          /\ Len(tkm["I"].skD) = prfLen /\ Len(tkm["I"].skPr) = prfLen

C10_Witness ==
    /\ tkm["I"].phase = "keys" /\ tkm["R"].phase = "keys"
    /\ tkm["I"].Ni # tkm["I"].Nr

\* C11: Close is idempotent: a call of Close on a session that is already closing
\* (by an earlier Close or by the peer's Delete) queues nothing, posts no event
\* and changes no field of the session.
C11_CloseIdempotent ==
    [][\A s \in Sessions :
          (last'.op = "Close" /\ last'.s = s /\ sess[s].isClosing)
          => [sess'[s] EXCEPT !.closeCalled = sess[s].closeCalled] = sess[s]]_vars

\* a Close on a session the peer's Delete has closed, and a second Close
C11_Witness ==
    /\ last.op = "Close" /\ sess[last.s].isClosing
    /\ \A i \in DOMAIN sess[last.s].events : sess[last.s].events[i].ev # "DELETE_IKE_SA"
    /\ sess[last.s].State = "Closing"

\* C12: once Close has been called on a session, nothing more is put on its
\* outgoing queue.
C12_NoOutputAfterClose ==
    [][\A s \in Sessions :
          sess[s].closeCalled => Len(sess'[s].outgoing) <= Len(sess[s].outgoing)]_vars

\* C13: on_remove_sa is invoked at most once per session.
C13_RemoveSaAtMostOnce ==
    \A s \in Sessions : sess[s].removeSa <= 1

\* C14: after Close the order is: every queued message and the Delete are handed
\* to write_fn, then on_remove_sa is called, then the session enters Finished.
C14_ShutdownOrder ==
    [][\A s \in Sessions :
          sess[s].closeCalled =>
             /\ sess'[s].removeSa # sess[s].removeSa => sess[s].outgoing = <<>>
             /\ (sess'[s].State = "Finished" /\ sess[s].State # "Finished")
                   => (sess[s].outgoing = <<>> /\ sess[s].removeSa >= 1)]_vars

\* C15: an iteration of Run takes an outgoing buffer if there is one, otherwise an
\* incoming message, otherwise an event, otherwise the cancellation signal.
C15_PriorityOrder ==
    [][\A s \in Sessions :
          last'.s = s =>
             /\ last'.op = "RunIncoming" => sess[s].outgoing = <<>>
             /\ last'.op = "RunEvent"
                   => (sess[s].outgoing = <<>> /\ sess[s].incoming = <<>>)
             /\ last'.op = "RunDone"
                   => (sess[s].outgoing = <<>> /\ sess[s].incoming = <<>>
                       /\ sess[s].events = <<>>)]_vars

\* C16: when the session has closed its queues and cancelled its context, the
\* outgoing queue is empty: every buffer queued has been handed to write_fn.
C16_NothingStranded ==
    \A s \in Sessions : sess[s].closed => sess[s].outgoing = <<>>

\* a session that has sent a reply and a Delete, and has finished
C16_Witness ==
    \E s \in Sessions :
       /\ sess[s].closed /\ sess[s].State = "Finished"
       /\ sess[s].msgIdResp >= 1 /\ sess[s].closeCalled

\* C17: the refusal of a CREATE_CHILD_SA request puts exactly one
\* NO_ADDITIONAL_SAS notification on the outgoing queue and leaves the session in
\* Mature, without a call of on_remove_sa.
C17_ChildSaRefusedStaysMature ==
    [][\A s \in Sessions :
          (/\ last'.op = "RunEvent" /\ last'.s = s
           /\ sess[s].State = "Mature"
           /\ Head(sess[s].events).ev = "AUTH_FAIL"
           /\ Head(sess[s].events).err = "NO_ADDITIONAL_SAS")
          => /\ Len(sess'[s].outgoing) = Len(sess[s].outgoing) + 1
             /\ sess'[s].State = "Mature"
             /\ sess'[s].removeSa = sess[s].removeSa]_vars

\* C18: a throttling responder answers an IKE_SA_INIT request that carries no
\* cookie with exactly one IKE_SA_INIT response holding Notify(COOKIE, H), H the
\* cookie of the request's nonce, initiator SPI and remote address; the request is
\* rejected and no session is created.
C18_CookieRequested ==
    (/\ srv.op # "none" /\ srv.cfg.ThrottleInitRequests
     /\ srv.init.isInitiator /\ srv.init.cookie = NoCookie)
    => /\ srv.err # NoErr /\ ~srv.created
       /\ Len(srv.sent) = 1
       /\ srv.sent[1].exch = "IKE_SA_INIT" /\ srv.sent[1].resp
       /\ srv.sent[1].spiI = srv.init.spiI
       /\ srv.sent[1].nt = "COOKIE"
       /\ srv.sent[1].data = getCookie(srv.init.nonce, srv.init.spiI, srv.remote)

\* a request without cookie, for the wrong DH group, at a throttling responder
C18_Witness ==
    /\ srv.op = "ServeInit" /\ srv.cfg.ThrottleInitRequests
    /\ srv.init.isInitiator /\ srv.init.cookie = NoCookie
    /\ srv.init.dhTransformId # srv.cfg.dh
    /\ srv.sent # <<>>

\* C19: a request whose cookie is not the one the responder computes for it is
\* dropped without a reply, and a request with the right cookie passes the cookie
\* check.
C19_WrongCookieNoReply ==
    (srv.op # "none" /\ srv.init.isInitiator /\ srv.init.cookie # NoCookie)
    => IF srv.init.cookie = getCookie(srv.init.nonce, srv.init.spiI, srv.remote)
       THEN Cause(srv.err) # "MissingCookieError"
       ELSE srv.sent = <<>> /\ ~srv.created

C21_NoProposalChosenReply ==
    (/\ srv.op # "none" /\ srv.init.isInitiator
     /\ srv.init.dhTransformId = srv.cfg.dh
     /\ IF srv.init.cookie = NoCookie THEN ~srv.cfg.ThrottleInitRequests
        ELSE srv.init.cookie = getCookie(srv.init.nonce, srv.init.spiI, srv.remote)
     /\ ~srv.init.proposalsOk)
    => /\ Len(srv.sent) = 1
       /\ srv.sent[1].nt = "NO_PROPOSAL_CHOSEN"

\* C22: when the handling of a received IKE_AUTH fails, the notification sent to
\* the peer is AUTHENTICATION_FAILED and the session moves to Closing.
C22_AuthFailureNotified ==
    [][\A s \in Sessions :
          (/\ last'.op = "RunEvent" /\ last'.s = s
           /\ sess[s].State # "Finished"
           /\ Head(sess[s].events).ev = "AUTH_FAIL"
           /\ Head(sess[s].events).err \in AuthErrors)
          => /\ Head(sess[s].events).err = "AUTHENTICATION_FAILED"
             /\ Len(sess'[s].outgoing) = Len(sess[s].outgoing) + 1
             /\ sess'[s].State = "Closing"]_vars

\* C23: an SK message that verifies and decrypts but whose inner payload chain
\* does not decode is answered with an encrypted notification, and the state of
\* the session is unchanged.
C23_DecodeErrorNotified ==
    [][\A s \in Sessions :
          (/\ last'.op = "RunIncoming" /\ last'.s = s
           /\ Head(sess[s].incoming).sk /\ sess[s].haveKeys
           /\ Head(sess[s].incoming).macOk /\ ~Head(sess[s].incoming).decOk)
          => /\ Len(sess'[s].outgoing) = Len(sess[s].outgoing) + 1
             /\ sess'[s].outgoing[Len(sess'[s].outgoing)].sk
             /\ sess'[s].State = sess[s].State]_vars

\* the well-formed datagrams whose first payload is of a type the decoder does
\* not know and has the Critical bit set
CriticalUnknownWires ==
    {WireBuffer(c, 128, 0, 0, <<>>) :
        c \in {x \in WireChains : x # <<>> /\ x[1].type = PayloadTypeGSPM}}

\* C24: a message with a payload of unknown type whose Critical bit is set is
\* answered with UNSUPPORTED_CRITICAL_PAYLOAD and otherwise discarded, and
\* decoding a payload header sets IsCritical exactly when the bit is set
C24_CriticalPayloadRefused ==
    calc.op = "Decode" =>
        /\ Len(calc.w) >= IKE_HEADER_LEN + PAYLOAD_HEADER_LENGTH =>
              LET b == Slice(calc.w, IKE_HEADER_LEN, PAYLOAD_HEADER_LENGTH) IN
              PayloadHeaderDecode(b).IsCritical = (ReadB8(b, 1) >= 128)
        /\ calc.w \in CriticalUnknownWires =>
              calc.dec.err = "UNSUPPORTED_CRITICAL_PAYLOAD"

\* C25: decoding a valid unencrypted datagram and encoding the result gives
\* the datagram back, octet for octet
C25_DecodeEncodeRoundTrip ==
    calc.w \in ValidWireBuffers =>
        /\ calc.op = "Decode" => calc.dec.err = "nil"
        /\ calc.op = "Encode" => calc.enc = calc.w

\* C26: the payload chain is accepted only when it ends exactly at the Length
\* of the header, and a payload whose length is below 4 or beyond what is left
\* of the message is refused with INVALID_SYNTAX
C26_ChainLengthChecked ==
    (calc.op = "Decode" /\ Len(calc.w) >= IKE_HEADER_LEN) =>
        LET d == DecodeIkeHeader(Slice(calc.w, 0, IKE_HEADER_LEN)) IN
        /\ calc.dec.err = "nil" => calc.dec.rest = 0
        /\ ( /\ d.err = "nil"
             /\ d.h.NextPayload \notin {PayloadTypeNone, PayloadTypeSK}
             /\ Len(calc.w) >= d.h.MsgLength
             /\ Len(calc.w) >= IKE_HEADER_LEN + PAYLOAD_HEADER_LENGTH
             /\ LET pl == ReadB16(calc.w, IKE_HEADER_LEN + 2) IN
                pl < PAYLOAD_HEADER_LENGTH \/ pl > d.h.MsgLength - IKE_HEADER_LEN )
           => calc.dec.err = "INVALID_SYNTAX"

\* C27: IsaCreate derives KEYMAT of exactly 3*prfLen + 2*keyLen + 2*macKeyLen
\* octets and cuts it, without gap or overlap, into SK_d, SK_ai, SK_ar, SK_ei,
\* SK_er, SK_pi, SK_pr in this order with the lengths prfLen, macKeyLen,
\* macKeyLen, keyLen, keyLen, prfLen, prfLen
C27_KeymatSplit ==
    \A s \in Sessions :
        tkm[s].phase = "keys" =>
            LET t == tkm[s]
                kmLen == 3 * prfLen + 2 * keyLen + 2 * macKeyLen
                KEYMAT == prfplus(t.SKEYSEED,
                                  Bytes(t.Ni) \o Bytes(t.Nr) \o t.IkeSpiI \o t.IkeSpiR,
                                  kmLen)
            IN /\ Len(KEYMAT) = kmLen
               /\ t.skD \o t.skAi \o t.skAr \o t.skEi \o t.skEr \o t.skPi \o t.skPr
                     = KEYMAT
               /\ Len(t.skD) = prfLen /\ Len(t.skPi) = prfLen /\ Len(t.skPr) = prfLen
               /\ Len(t.skAi) = macKeyLen /\ Len(t.skAr) = macKeyLen
               /\ Len(t.skEi) = keyLen /\ Len(t.skEr) = keyLen

C27_Witness ==
    \A s \in Sessions :
        /\ tkm[s].phase = "keys"
        /\ Len(tkm[s].skD) + Len(tkm[s].skAi) + Len(tkm[s].skAr) + Len(tkm[s].skEi)
              + Len(tkm[s].skEr) + Len(tkm[s].skPi) + Len(tkm[s].skPr)
              = 3 * prfLen + 2 * keyLen + 2 * macKeyLen

\* C28: the initiator encrypts and MACs what it sends with SK_ei and SK_ai and
\* verifies and decrypts what it receives with SK_ar and SK_er, the responder
\* the other way round; so a message protected by EncryptMac is accepted by
\* VerifyDecrypt of the peer, which gives back the encoded payloads, and is
\* not accepted by the role that protected it
C28_RoleKeys ==
    /\ (calc.op \in {"EncryptMac", "VerifyDecrypt"} /\ calc.enc.err = "nil") =>
          LET t == tkm[calc.from]
              b == calc.enc.b
              l == Len(b)
          IN /\ SubSeq(b, l - macLen + 1, l)
                   = hashMac(IF calc.from = "I" THEN t.skAi ELSE t.skAr,
                             SubSeq(b, 1, l - macLen))
             /\ b[IKE_HEADER_LEN + PAYLOAD_HEADER_LENGTH + ivLen + 1].k
                   = (IF calc.from = "I" THEN t.skEi ELSE t.skEr)
    /\ calc.op = "VerifyDecrypt" =>
          IF calc.to = Peer(calc.from)
          THEN calc.res.err = "nil" /\ calc.res.dec = calc.clear
          ELSE calc.res.err # "nil"

C28_Witness ==
    /\ calc.op = "VerifyDecrypt"
    /\ calc.from = "R"
    /\ calc.to = "I"
    /\ calc.res.err = "nil"
    /\ Len(calc.res.dec) > BlockSize
    /\ calc.res.dec = calc.clear

\* the i-th block of the output of prfplus, i counted from 1
PrfBlock(out, i) == SubSeq(out, (i - 1) * prfLen + 1, i * prfLen)

\* C29: prfplus(K, S, n) is the first n octets of prfplus(K, S, m) for n <= m,
\* where T1 = prf(K, S | 0x01) and Ti = prf(K, T(i-1) | S | byte(i))
C29_PrfplusPrefixStable ==
    calc.op = "prfplus" =>
        LET long == prfplus(calc.key, calc.data, PrfTop) IN
        /\ calc.out = SubSeq(long, 1, calc.bits)
        /\ \A i \in 1..(PrfTop \div prfLen) :
              PrfBlock(long, i) =
                  prf(calc.key,
                      (IF i = 1 THEN <<>> ELSE PrfBlock(long, i - 1))
                          \o calc.data \o <<Lit(i % 256)>>)

C29_Witness ==
    /\ calc.op = "prfplus"
    /\ calc.bits > 2 * prfLen
    /\ calc.bits % prfLen # 0
    /\ Len(calc.out) = calc.bits

\* C30: prfplus gives no key material when more than 255 times the prf output
\* length is asked for, so that its one-octet round counter never wraps
C30_PrfplusLengthLimit ==
    (calc.op = "prfplus" /\ calc.bits > 255 * prfLen) => calc.out = <<>>

\* C31: decrypt returns an error for every clear text whose last octet p, the
\* pad length, is not below the block size (255 included) and otherwise strips
\* exactly p + 1 octets; encrypt appends between 1 and block-size octets of
\* which the last is the pad length, so decrypt(encrypt(x)) = x.
C31_PadLengthChecked ==
    /\ (calc.op = "decrypt" /\ calc.clear # <<>> /\ Len(calc.clear) % BlockSize = 0) =>
          LET p == calc.clear[Len(calc.clear)].i IN
          IF p < BlockSize
          THEN /\ calc.res.err = "nil"
               /\ calc.res.dec = SubSeq(calc.clear, 1, Len(calc.clear) - (p + 1))
          ELSE calc.res.err \notin {"nil", "panic"}
    /\ calc.op = "encrypt" =>
          LET n == Len(calc.padded) - Len(calc.clear) IN
          /\ n \in 1..BlockSize
          /\ SubSeq(calc.padded, 1, Len(calc.clear)) = calc.clear
          /\ calc.padded[Len(calc.padded)] = Lit(n - 1)
          /\ calc.res = [err |-> "nil", dec |-> calc.clear]

\* C32: decodeSelector(encodeSelector(s)) gives a selector equal to s in type,
\* protocol id, start port, end port, start address and end address, and
\* consumes exactly the encoded length.
C32_SelectorRoundTrip ==
    calc.op = "selector" =>
        /\ calc.res.err = "nil"
        /\ calc.res.sel = calc.sel
        /\ calc.res.used = Len(calc.b)

\* C33: TrafficSelectorPayload.Decode succeeds exactly when the number of
\* selectors in the body equals the Number of TSs octet (for every count,
\* zero and two or more included) and otherwise returns InvalidSyntax.
C33_SelectorCountChecked ==
    (calc.op = "ts" /\ calc.wellFormed) =>
        IF calc.k = calc.n
        THEN calc.res.err = "nil" /\ Len(calc.res.Selectors) = calc.n
        ELSE calc.res.err = "INVALID_SYNTAX"

\* C34: HandleInitForSession fails on the signature-algorithm check exactly
\* when digital signatures (RFC 7427) are configured locally and the peer's
\* IKE_SA_INIT message has no SIGNATURE_HASH_ALGORITHMS notification; with
\* shared-key authentication a message without it is accepted.
C34_SignatureAlgoChecked ==
    calc.op = "HandleInit" =>
        ((calc.err # "nil") <=>
            (/\ calc.auth[calc.s] = "AUTH_DIGITAL_SIGNATURE"
             /\ ~rfc7427Signatures(calc.ns)))

C35_ClosingWitness ==
    /\ last.op = "RunEvent" /\ last.verdict = "MSG_INFORMATIONAL"
    /\ sess[last.s].closeCalled /\ sess[last.s].isClosing
    /\ sess[last.s].msgIdResp = 0
    /\ sess[last.s].removeSa = 1

C38_RunNeverBlocks ==
    \A s \in Sessions : ~sess[s].blocked

\* the dispatcher is about to run isMessageValid on a response that reaches
\* the comparison with msgIdReq (and the increment when they are equal)
PostTouchesMsgIdReq(o) ==
    /\ o.posting # <<>> /\ o.posting[1].pc = "valid"
    /\ LET m == o.posting[1].m IN
       m.resp /\ m.spiOk /\ (m.sk \/ o.State \in {"Idle", "Start"})

\* the handler Run may execute next builds a message whose id is msgIdReq:
\* what it puts on outgoing depends on the value of the counter
RunReadsMsgIdReq(o) ==
    /\ o.running /\ ~o.done
    /\ \/ /\ o.events # <<>>
          /\ LET o1 == [o EXCEPT !.events = Tail(@)]
                 o2 == [o1 EXCEPT !.msgIdReq = @ + 1] IN
             HandleEvent(o1, Head(o.events)).outgoing
                 # HandleEvent(o2, Head(o.events)).outgoing
       \/ /\ o.outgoing # <<>>
          /\ LET o1 == [o EXCEPT !.outgoing = Tail(@)]
                 o2 == [o1 EXCEPT !.msgIdReq = @ + 1] IN
             Close(o1).outgoing # Close(o2).outgoing

\* C37: in every interleaving of the dispatcher's PostMessage with the run
\* loop, PostMessage never sends on the incoming queue after Finished has
\* closed it, and PostMessage never reads or writes msgIdReq while a builder
\* of the run loop may be reading it.
C37_PostMessageSafe ==
    \A s \in Sessions :
       /\ ~(last.op = "PostSend" /\ last.s = s /\ last.verdict = "panic")
       /\ ~(PostTouchesMsgIdReq(sess[s]) /\ RunReadsMsgIdReq(sess[s]))

\* C36: after Close has been called on a running session whose write_fn keeps
\* succeeding, under fair scheduling the session eventually enters Finished,
\* cancels its context and Run returns; Run never returns before the context
\* is cancelled.
C36_CloseTerminates ==
    \A s \in Sessions :
       /\ [](sess[s].closeCalled
                => <>(/\ sess[s].State = "Finished"
                      /\ sess[s].done
                      /\ ~sess[s].running))
       /\ [](~sess[s].running => sess[s].done)

====
